---------------------------- MODULE Spec2Model ----------------------------
(***************************************************************************)
(* A model of mygo's translation engine (internal/translator) and of the    *)
(* values it hands to the session.                                          *)
(*                                                                          *)
(* Strings.  A Go string is modelled as a sequence of atoms.  User input is *)
(* a sequence of one-character atoms ("S", "H", ...), so that TrimSpace,    *)
(* ToUpper, the regular expressions and Fields work on it character by      *)
(* character.  The fixed text of a query literal of the source is kept as   *)
(* one multi-character atom, exactly as written in the source (with \n and  *)
(* \t for the line breaks and tabs of the raw literals); fmt.Sprintf splices *)
(* the captured characters between such atoms.                              *)
(***************************************************************************)
EXTENDS Naturals, Sequences, FiniteSets, TLC

(***************************************************************************)
(* Characters                                                               *)
(***************************************************************************)
LowerLetters ==
    <<"a","b","c","d","e","f","g","h","i","j","k","l","m",
      "n","o","p","q","r","s","t","u","v","w","x","y","z">>

UpperLetters ==
    <<"A","B","C","D","E","F","G","H","I","J","K","L","M",
      "N","O","P","Q","R","S","T","U","V","W","X","Y","Z">>

Digits == {"0","1","2","3","4","5","6","7","8","9"}

IndexOf(seq, c) == CHOOSE i \in 1..Len(seq) : seq[i] = c

LowerSet == {LowerLetters[i] : i \in 1..Len(LowerLetters)}

UpperSet == {UpperLetters[i] : i \in 1..Len(UpperLetters)}

IsLower(c) == c \in LowerSet

IsUpper(c) == c \in UpperSet

\* unicode.ToUpper and unicode.ToLower on ASCII: a letter goes to the letter at
\* the same place of the other case, any other character stays
UpperOf == [c \in LowerSet |-> UpperLetters[IndexOf(LowerLetters, c)]]

LowerOf == [c \in UpperSet |-> LowerLetters[IndexOf(UpperLetters, c)]]

ToUpperChar(c) == IF IsLower(c) THEN UpperOf[c] ELSE c

ToLowerChar(c) == IF IsUpper(c) THEN LowerOf[c] ELSE c

\* unicode.IsSpace, restricted to the ASCII white space TLA+ can write
IsSpace(c) == c \in {" ", "\t", "\n", "\r", "\f"}

\* the regexp class \s: [\t\n\f\r ]
IsRegexSpace(c) == c \in {" ", "\t", "\n", "\r", "\f"}

\* the regexp class \w: [0-9A-Za-z_]
IsWordChar(c) == IsLower(c) \/ IsUpper(c) \/ c \in Digits \/ c = "_"

(***************************************************************************)
(* package strings                                                          *)
(***************************************************************************)
SetMin(S) == CHOOSE m \in S : \A n \in S : m <= n

SetMax(S) == CHOOSE m \in S : \A n \in S : n <= m

\* faulty variant: the copy used for matching keeps the letter case
ToUpper_Identity(s) == s

ToUpper(s) == [i \in 1..Len(s) |-> ToUpperChar(s[i])]

ToLower(s) == [i \in 1..Len(s) |-> ToLowerChar(s[i])]

TrimSpace(s) ==
    LET keep == {i \in 1..Len(s) : ~IsSpace(s[i])}
    IN  IF keep = {} THEN <<>> ELSE SubSeq(s, SetMin(keep), SetMax(keep))

\* faulty variant: strings.Contains where strings.HasPrefix is meant
HasPrefix_Contains(s, p) ==
    \E i \in 1..(Len(s) - Len(p) + 1) : SubSeq(s, i, i + Len(p) - 1) = p

HasPrefix(s, p) == Len(p) <= Len(s) /\ SubSeq(s, 1, Len(p)) = p

HasSuffix(s, p) == Len(p) <= Len(s) /\ SubSeq(s, Len(s) - Len(p) + 1, Len(s)) = p

TrimSuffix(s, p) == IF HasSuffix(s, p) THEN SubSeq(s, 1, Len(s) - Len(p)) ELSE s

\* faulty variant: the input is not split at white space
Fields_NoSplit(s) == IF TrimSpace(s) = <<>> THEN <<>> ELSE <<TrimSpace(s)>>

\* strings.Fields: the maximal runs of non-space characters, in order
RECURSIVE Fields(_)
Fields(s) ==
    LET t == TrimSpace(s)
        sp == {i \in 1..Len(t) : IsSpace(t[i])}
    IN  IF t = <<>> THEN <<>>
        ELSE IF sp = {} THEN <<t>>
        ELSE <<SubSeq(t, 1, SetMin(sp) - 1)>> \o Fields(SubSeq(t, SetMin(sp), Len(t)))

\* faulty variant: strings.Replace(s, old, new, 1), the first occurrence only
RECURSIVE ReplaceAll_FirstOnly(_, _, _)
ReplaceAll_FirstOnly(s, old, new) ==
    IF s = <<>> THEN <<>>
    ELSE IF Len(old) <= Len(s) /\ SubSeq(s, 1, Len(old)) = old
         THEN new \o SubSeq(s, Len(old) + 1, Len(s))
         ELSE <<Head(s)>> \o ReplaceAll_FirstOnly(Tail(s), old, new)

\* strings.ReplaceAll: non-overlapping occurrences of old, left to right
RECURSIVE ReplaceAll(_, _, _)
ReplaceAll(s, old, new) ==
    IF s = <<>> THEN <<>>
    ELSE IF Len(old) <= Len(s) /\ SubSeq(s, 1, Len(old)) = old
         THEN new \o ReplaceAll(SubSeq(s, Len(old) + 1, Len(s)), old, new)
         ELSE <<Head(s)>> \o ReplaceAll(Tail(s), old, new)

\* fmt.Sprintf for the verbs the source uses: the atom "%s" takes the next
\* argument, the atom "%%" is a literal per cent sign, other atoms are copied
RECURSIVE Sprintf(_, _)
Sprintf(format, args) ==
    IF format = <<>> THEN <<>>
    ELSE IF Head(format) = "%s" THEN Head(args) \o Sprintf(Tail(format), Tail(args))
    ELSE IF Head(format) = "%%" THEN <<"%">> \o Sprintf(Tail(format), args)
    ELSE <<Head(format)>> \o Sprintf(Tail(format), args)

(***************************************************************************)
(* package regexp.  A pattern is a sequence of items; every pattern of the  *)
(* source is compiled with (?i) and anchored by ^ and $.  Matching lists    *)
(* the ways an item can match in the priority order of leftmost-first       *)
(* matching: alternatives left to right, repetitions longest first.         *)
(***************************************************************************)
Lit(w) == [k |-> "lit", w |-> w]

\* a greedy run of at least min characters of a class: "s" is \s, "w" is \w,
\* "nq" is [^']
Rep(class, min, cap) == [k |-> "rep", class |-> class, min |-> min, cap |-> cap]

Alt(alts, cap) == [k |-> "alt", alts |-> alts, cap |-> cap]

Opt(re, cap) == Alt(<<re, <<>>>>, cap)

Ws == Rep("s", 1, FALSE)

InClass(c, class) ==
    CASE class = "s" -> IsRegexSpace(c)
      [] class = "w" -> IsWordChar(c)
      [] class = "nq" -> c # "'"

RunLength(s, i, class) ==
    LET stop == {j \in i..Len(s) : ~InClass(s[j], class)}
    IN  IF stop = {} THEN Len(s) - i + 1 ELSE SetMin(stop) - i

RECURSIVE MatchSeq(_, _, _), MatchItem(_, _, _), ThenRest(_, _, _), MatchAlts(_, _, _, _)

MatchItem(it, s, i) ==
    CASE it.k = "lit" ->
           IF /\ i + Len(it.w) - 1 <= Len(s)
              /\ \A j \in 1..Len(it.w) : ToUpperChar(s[i + j - 1]) = ToUpperChar(it.w[j])
           THEN <<[pos |-> i + Len(it.w), caps |-> <<>>]>>
           ELSE <<>>
      [] it.k = "rep" ->
           LET run == RunLength(s, i, it.class)
           IN  IF run < it.min THEN <<>>
               ELSE [n \in 1..(run - it.min + 1) |->
                       LET len == run - n + 1
                       IN  [pos |-> i + len,
                            caps |-> IF it.cap THEN <<SubSeq(s, i, i + len - 1)>> ELSE <<>>]]
      [] it.k = "alt" -> MatchAlts(it.alts, it.cap, s, i)

MatchAlts(alts, cap, s, i) ==
    IF alts = <<>> THEN <<>>
    ELSE LET here == MatchSeq(Head(alts), s, i)
         IN  [n \in 1..Len(here) |->
                [pos |-> here[n].pos,
                 caps |-> IF cap THEN <<SubSeq(s, i, here[n].pos - 1)>> \o here[n].caps
                          ELSE here[n].caps]]
             \o MatchAlts(Tail(alts), cap, s, i)

ThenRest(heads, rest, s) ==
    IF heads = <<>> THEN <<>>
    ELSE LET h == Head(heads)
             more == MatchSeq(rest, s, h.pos)
         IN  [n \in 1..Len(more) |-> [pos |-> more[n].pos, caps |-> h.caps \o more[n].caps]]
             \o ThenRest(Tail(heads), rest, s)

MatchSeq(re, s, i) ==
    IF re = <<>> THEN <<[pos |-> i, caps |-> <<>>]>>
    ELSE ThenRest(MatchItem(Head(re), s, i), Tail(re), s)

\* Regexp.FindStringSubmatch for an anchored pattern: <<>> stands for nil;
\* otherwise element 1 is the whole match and element k+1 is group k
\* (Go's matches[k])
FindStringSubmatch(re, s) ==
    LET all == MatchSeq(re, s, 1)
        full == SelectSeq(all, LAMBDA r : r.pos = Len(s) + 1)
    IN  IF full = <<>> THEN <<>> ELSE <<s>> \o Head(full).caps

\* the words of the phrases and patterns of translator.go, as characters
Text ==
    [ kSHOW |-> <<"S","H","O","W">>,
      kDATABASES |-> <<"D","A","T","A","B","A","S","E","S">>,
      kTABLES |-> <<"T","A","B","L","E","S">>,
      kFULL |-> <<"F","U","L","L">>,
      kFROM |-> <<"F","R","O","M">>,
      kIN |-> <<"I","N">>,
      kCOLUMNS |-> <<"C","O","L","U","M","N","S">>,
      kDESC |-> <<"D","E","S","C">>,
      kDESCRIBE |-> <<"D","E","S","C","R","I","B","E">>,
      kCREATE |-> <<"C","R","E","A","T","E">>,
      kTABLE |-> <<"T","A","B","L","E">>,
      kDATABASE |-> <<"D","A","T","A","B","A","S","E">>,
      kINDEX |-> <<"I","N","D","E","X">>,
      kINDEXES |-> <<"I","N","D","E","X","E","S">>,
      kKEYS |-> <<"K","E","Y","S">>,
      kSTATUS |-> <<"S","T","A","T","U","S">>,
      kVARIABLES |-> <<"V","A","R","I","A","B","L","E","S">>,
      kGLOBAL |-> <<"G","L","O","B","A","L">>,
      kLIKE |-> <<"L","I","K","E">>,
      kPROCESSLIST |-> <<"P","R","O","C","E","S","S","L","I","S","T">>,
      kGRANTS |-> <<"G","R","A","N","T","S">>,
      kFOR |-> <<"F","O","R">>,
      kSCHEMAS |-> <<"S","C","H","E","M","A","S">>,
      kTRIGGERS |-> <<"T","R","I","G","G","E","R","S">>,
      kFUNCTION |-> <<"F","U","N","C","T","I","O","N">>,
      kPROCEDURE |-> <<"P","R","O","C","E","D","U","R","E">>,
      kUSE |-> <<"U","S","E">>,
      kENGINES |-> <<"E","N","G","I","N","E","S">>,
      kCHARSET |-> <<"C","H","A","R","S","E","T">>,
      kCHARACTER |-> <<"C","H","A","R","A","C","T","E","R">>,
      kSET |-> <<"S","E","T">>,
      kCOLLATION |-> <<"C","O","L","L","A","T","I","O","N">>,
      kWARNINGS |-> <<"W","A","R","N","I","N","G","S">>,
      kERRORS |-> <<"E","R","R","O","R","S">>,
      kSELECT |-> <<"S","E","L","E","C","T">>,
      kDATABASE_CALL |-> <<"D","A","T","A","B","A","S","E","(",")">>,
      kVERSION_CALL |-> <<"V","E","R","S","I","O","N","(",")">>,
      kUSER_CALL |-> <<"U","S","E","R","(",")">>,
      kCURRENT_USER_CALL |-> <<"C","U","R","R","E","N","T","_","U","S","E","R","(",")">>,
      kNOW_CALL |-> <<"N","O","W","(",")">>,
      kHELP_FLAG |-> <<"-","-","H","E","L","P">> ]

\* the case labels of translateBackslashCommand, as characters
Directive ==
    [ l |-> <<"\\","l">>,
      list |-> <<"\\","l","i","s","t">>,
      dt |-> <<"\\","d","t">>,
      dtplus |-> <<"\\","d","t","+">>,
      d |-> <<"\\","d">>,
      di |-> <<"\\","d","i">>,
      dv |-> <<"\\","d","v">>,
      df |-> <<"\\","d","f">>,
      du |-> <<"\\","d","u">>,
      dn |-> <<"\\","d","n">>,
      c |-> <<"\\","c">>,
      connect |-> <<"\\","c","o","n","n","e","c","t">>,
      q |-> <<"\\","q">>,
      quit |-> <<"\\","q","u","i","t">>,
      qmark |-> <<"\\","?">>,
      help |-> <<"\\","h","e","l","p">>,
      x |-> <<"\\","x">> ]

\* a phrase the source writes as one string literal: its words, one space apart
RECURSIVE Phrase(_)
Phrase(words) ==
    IF Len(words) = 1 THEN Head(words)
    ELSE Head(words) \o <<" ">> \o Phrase(Tail(words))

(***************************************************************************)
(* internal/db: the two dialects                                            *)
(***************************************************************************)
MySQL == "mysql"

PostgreSQL == "pg"

(***************************************************************************)
(* internal/translator: TranslationResult and the (result, error) pairs     *)
(***************************************************************************)
\* a nil *TranslationResult, and a nil error
Nil == [nil |-> TRUE]

\* &TranslationResult{Query: q}
QueryResult(q) == [Query |-> q, IsSpecial |-> FALSE, SpecialType |-> "", Args |-> <<>>]

\* &TranslationResult{IsSpecial: true, SpecialType: kind, Args: args}
SpecialResult(kind, args) ==
    [Query |-> <<>>, IsSpecial |-> TRUE, SpecialType |-> kind, Args |-> args]

\* return result, nil
Ok(result) == [result |-> result, err |-> Nil]

\* return nil, fmt.Errorf(msg)
Err(msg) == [result |-> Nil, err |-> [msg |-> msg]]

(***************************************************************************)
(* The patterns of translateForPostgres                                     *)
(***************************************************************************)
\* (?i)^SHOW\s+TABLES\s+(FROM|IN)\s+(\w+)$
showTablesFromRe ==
    <<Lit(Text.kSHOW), Ws, Lit(Text.kTABLES), Ws,
      Alt(<<<<Lit(Text.kFROM)>>, <<Lit(Text.kIN)>>>>, TRUE), Ws, Rep("w", 1, TRUE)>>

\* faulty variant: the alternative DESCRIBE is missing
showColumnsRe_NoDescribe ==
    <<Alt(<<<<Lit(Text.kSHOW), Ws, Lit(Text.kCOLUMNS), Ws, Lit(Text.kFROM)>>,
            <<Lit(Text.kDESC)>>>>, TRUE),
      Ws, Rep("w", 1, TRUE)>>

\* faulty variant: (?i)^(SHOW\s+(?:FULL\s+)?COLUMNS\s+FROM|DESC|DESCRIBE)\s+(\w+)$,
\* the generic row also takes the full form, and it is tested first
showColumnsRe_FullOptional ==
    <<Alt(<<<<Lit(Text.kSHOW), Ws, Opt(<<Lit(Text.kFULL), Ws>>, FALSE), Lit(Text.kCOLUMNS), Ws,
              Lit(Text.kFROM)>>,
            <<Lit(Text.kDESC)>>,
            <<Lit(Text.kDESCRIBE)>>>>, TRUE),
      Ws, Rep("w", 1, TRUE)>>

\* (?i)^(SHOW\s+COLUMNS\s+FROM|DESC|DESCRIBE)\s+(\w+)$
showColumnsRe ==
    <<Alt(<<<<Lit(Text.kSHOW), Ws, Lit(Text.kCOLUMNS), Ws, Lit(Text.kFROM)>>,
            <<Lit(Text.kDESC)>>,
            <<Lit(Text.kDESCRIBE)>>>>, TRUE),
      Ws, Rep("w", 1, TRUE)>>

\* (?i)^SHOW\s+FULL\s+COLUMNS\s+FROM\s+(\w+)$
showFullColumnsRe ==
    <<Lit(Text.kSHOW), Ws, Lit(Text.kFULL), Ws, Lit(Text.kCOLUMNS), Ws, Lit(Text.kFROM), Ws,
      Rep("w", 1, TRUE)>>

\* faulty variant: (?i)^SHOW\s+CREATE\s+(?:TABLE|DATABASE)\s+(\w+)$, a row
\* that also takes the shape of the row after it
showCreateTableRe_AnyObject ==
    <<Lit(Text.kSHOW), Ws, Lit(Text.kCREATE), Ws,
      Alt(<<<<Lit(Text.kTABLE)>>, <<Lit(Text.kDATABASE)>>>>, FALSE), Ws, Rep("w", 1, TRUE)>>

\* (?i)^SHOW\s+CREATE\s+TABLE\s+(\w+)$
showCreateTableRe ==
    <<Lit(Text.kSHOW), Ws, Lit(Text.kCREATE), Ws, Lit(Text.kTABLE), Ws, Rep("w", 1, TRUE)>>

\* (?i)^SHOW\s+CREATE\s+DATABASE\s+(\w+)$
showCreateDatabaseRe ==
    <<Lit(Text.kSHOW), Ws, Lit(Text.kCREATE), Ws, Lit(Text.kDATABASE), Ws, Rep("w", 1, TRUE)>>

\* (?i)^SHOW\s+(INDEX|INDEXES|KEYS)\s+FROM\s+(\w+)$
showIndexRe ==
    <<Lit(Text.kSHOW), Ws,
      Alt(<<<<Lit(Text.kINDEX)>>, <<Lit(Text.kINDEXES)>>, <<Lit(Text.kKEYS)>>>>, TRUE),
      Ws, Lit(Text.kFROM), Ws, Rep("w", 1, TRUE)>>

\* (?i)^SHOW\s+(GLOBAL\s+)?VARIABLES\s+LIKE\s+'([^']+)'$
showVarsLikeRe ==
    <<Lit(Text.kSHOW), Ws, Opt(<<Lit(Text.kGLOBAL), Ws>>, TRUE), Lit(Text.kVARIABLES), Ws,
      Lit(Text.kLIKE), Ws, Lit(<<"'">>), Rep("nq", 1, TRUE), Lit(<<"'">>)>>

\* (?i)^SHOW\s+GRANTS\s+FOR\s+'?(\w+)'?(@'?[^']*'?)?$
showGrantsForRe ==
    <<Lit(Text.kSHOW), Ws, Lit(Text.kGRANTS), Ws, Lit(Text.kFOR), Ws,
      Opt(<<Lit(<<"'">>)>>, FALSE), Rep("w", 1, TRUE), Opt(<<Lit(<<"'">>)>>, FALSE),
      Opt(<<Lit(<<"@">>), Opt(<<Lit(<<"'">>)>>, FALSE), Rep("nq", 0, FALSE),
            Opt(<<Lit(<<"'">>)>>, FALSE)>>, TRUE)>>

\* faulty variant: (?i)^USE(\s+)(\w+)$, a group that shifts the captured name
useDbRe_SpaceCaptured == <<Lit(Text.kUSE), Rep("s", 1, TRUE), Rep("w", 1, TRUE)>>

\* (?i)^USE\s+(\w+)$
useDbRe == <<Lit(Text.kUSE), Ws, Rep("w", 1, TRUE)>>

(***************************************************************************)
(* handleHelpCommands: the --help forms; Nil when the input is none of them *)
(***************************************************************************)
\* faulty variant: the phrases are compared without folding case
handleHelpCommands_CaseSensitive(input) ==
    LET upperInput == TrimSpace(input)
    IN  IF upperInput = Phrase(<<Text.kSHOW, Text.kHELP_FLAG>>) THEN
            SpecialResult("show_help", <<>>)
        ELSE IF upperInput = Phrase(<<Text.kSHOW, Text.kCREATE, Text.kHELP_FLAG>>) THEN
            SpecialResult("show_create_help", <<>>)
        ELSE IF upperInput = Phrase(<<Text.kSHOW, Text.kTABLES, Text.kHELP_FLAG>>) THEN
            SpecialResult("show_tables_help", <<>>)
        ELSE IF \/ upperInput = Phrase(<<Text.kSHOW, Text.kCOLUMNS, Text.kHELP_FLAG>>)
                \/ upperInput = Phrase(<<Text.kDESC, Text.kHELP_FLAG>>)
                \/ upperInput = Phrase(<<Text.kDESCRIBE, Text.kHELP_FLAG>>) THEN
            SpecialResult("show_columns_help", <<>>)
        ELSE Nil

handleHelpCommands(input) ==
    LET upperInput == ToUpper(TrimSpace(input))
    IN  IF upperInput = Phrase(<<Text.kSHOW, Text.kHELP_FLAG>>) THEN
            SpecialResult("show_help", <<>>)
        ELSE IF upperInput = Phrase(<<Text.kSHOW, Text.kCREATE, Text.kHELP_FLAG>>) THEN
            SpecialResult("show_create_help", <<>>)
        ELSE IF upperInput = Phrase(<<Text.kSHOW, Text.kTABLES, Text.kHELP_FLAG>>) THEN
            SpecialResult("show_tables_help", <<>>)
        ELSE IF \/ upperInput = Phrase(<<Text.kSHOW, Text.kCOLUMNS, Text.kHELP_FLAG>>)
                \/ upperInput = Phrase(<<Text.kDESC, Text.kHELP_FLAG>>)
                \/ upperInput = Phrase(<<Text.kDESCRIBE, Text.kHELP_FLAG>>) THEN
            SpecialResult("show_columns_help", <<>>)
        ELSE Nil

(***************************************************************************)
(* translateBackslashCommand: dispatch on the first field of the input      *)
(***************************************************************************)

\* faulty variant: the missing argument is left for the dispatcher to refuse
usageError_LeftToDispatcher == Ok(SpecialResult("use_database", <<>>))

\* return nil, fmt.Errorf("usage: \\c database_name")
usageError == Err(<<"usage: \\c database_name">>)

\* faulty variant: an unknown directive is passed through as a query
unknownCommand_Passthrough(cmd) == Ok(QueryResult(cmd))

\* return nil, fmt.Errorf("unknown command: %s", cmd)
unknownCommand(cmd) == Err(Sprintf(<<"unknown command: ", "%s">>, <<cmd>>))

translateBackslashCommand(input0) ==
    LET input == TrimSpace(input0)
        parts == Fields(input)
        cmd == parts[1]
    IN  IF cmd = Directive.l \/ cmd = Directive.list THEN
            Ok(QueryResult(<<"SELECT datname AS \"Database\" FROM pg_database WHERE datistemplate = false ORDER BY datname">>))
        ELSE IF cmd = Directive.dt THEN
            Ok(QueryResult(<<"SELECT tablename AS \"Tables\" FROM pg_tables WHERE schemaname = 'public' ORDER BY tablename">>))
        ELSE IF cmd = Directive.dtplus THEN
            Ok(QueryResult(<<"SELECT \n\t\t\t\ttablename AS \"Name\",\n\t\t\t\tpg_size_pretty(pg_total_relation_size(schemaname || '.' || tablename)) AS \"Size\"\n\t\t\tFROM pg_tables \n\t\t\tWHERE schemaname = 'public' \n\t\t\tORDER BY tablename">>))
        ELSE IF cmd = Directive.d THEN
            IF Len(parts) > 1 THEN
                LET tableName == parts[2]
                IN  Ok(QueryResult(Sprintf(<<"SELECT \n\t\t\t\t\tcolumn_name AS \"Column\",\n\t\t\t\t\tdata_type AS \"Type\",\n\t\t\t\t\tCASE WHEN is_nullable = 'YES' THEN 'YES' ELSE 'NO' END AS \"Nullable\"\n\t\t\t\tFROM information_schema.columns \n\t\t\t\tWHERE table_schema = 'public' AND table_name = '", "%s", "'\n\t\t\t\tORDER BY ordinal_position">>, <<tableName>>)))
            ELSE
                Ok(QueryResult(<<"SELECT tablename AS \"Name\", 'table' AS \"Type\" FROM pg_tables WHERE schemaname = 'public'\n\t\t\t\t\tUNION ALL\n\t\t\t\t\tSELECT viewname AS \"Name\", 'view' AS \"Type\" FROM pg_views WHERE schemaname = 'public'\n\t\t\t\t\tORDER BY \"Name\"">>))
        ELSE IF cmd = Directive.di THEN
            Ok(QueryResult(<<"SELECT indexname AS \"Index\", tablename AS \"Table\" FROM pg_indexes WHERE schemaname = 'public'">>))
        ELSE IF cmd = Directive.dv THEN
            Ok(QueryResult(<<"SELECT viewname AS \"View\" FROM pg_views WHERE schemaname = 'public'">>))
        ELSE IF cmd = Directive.df THEN
            Ok(QueryResult(<<"SELECT routine_name AS \"Function\", data_type AS \"Return Type\" \n\t\t\t\t\tFROM information_schema.routines \n\t\t\t\t\tWHERE routine_schema = 'public' AND routine_type = 'FUNCTION'">>))
        ELSE IF cmd = Directive.du THEN
            Ok(QueryResult(<<"SELECT rolname AS \"Role\", \n\t\t\t\t\tCASE WHEN rolsuper THEN 'Superuser' ELSE '' END AS \"Attributes\"\n\t\t\t\t\tFROM pg_roles ORDER BY rolname">>))
        ELSE IF cmd = Directive.dn THEN
            Ok(QueryResult(<<"SELECT schema_name AS \"Schema\" FROM information_schema.schemata ORDER BY schema_name">>))
        ELSE IF cmd = Directive.c \/ cmd = Directive.connect THEN
            IF Len(parts) > 1 THEN Ok(SpecialResult("use_database", <<parts[2]>>))
            ELSE usageError
        ELSE IF cmd = Directive.q \/ cmd = Directive.quit THEN
            Ok(SpecialResult("quit", <<>>))
        ELSE IF cmd = Directive.qmark \/ cmd = Directive.help THEN
            Ok(SpecialResult("help", <<>>))
        ELSE IF cmd = Directive.x THEN
            Ok(SpecialResult("toggle_expanded", <<>>))
        ELSE unknownCommand(cmd)

(***************************************************************************)
(* translateForPostgres: the ordered table of recognized forms              *)
(***************************************************************************)
translateForPostgres(input) ==
    LET trimmedInput == TrimSuffix(input, <<";">>)
        upperTrimmed == ToUpper(trimmedInput)
        help == handleHelpCommands(trimmedInput)
        M(re) == FindStringSubmatch(re, trimmedInput)
    IN  IF help # Nil THEN Ok(help)
        ELSE
        IF upperTrimmed = Phrase(<<Text.kSHOW, Text.kDATABASES>>) THEN
            Ok(QueryResult(<<"SELECT datname AS \"Database\" FROM pg_database WHERE datistemplate = false ORDER BY datname">>))
        ELSE IF upperTrimmed = Phrase(<<Text.kSHOW, Text.kTABLES>>) THEN
            Ok(QueryResult(<<"SELECT tablename AS \"Tables_in_database\" \n\t\t\t\t\tFROM pg_tables \n\t\t\t\t\tWHERE schemaname = 'public' \n\t\t\t\t\tORDER BY tablename">>))
        ELSE IF upperTrimmed = Phrase(<<Text.kSHOW, Text.kFULL, Text.kTABLES>>) THEN
            Ok(QueryResult(<<"SELECT tablename AS \"Tables_in_database\", \n\t\t\t\t\t'BASE TABLE' AS \"Table_type\"\n\t\t\t\t\tFROM pg_tables \n\t\t\t\t\tWHERE schemaname = 'public' \n\t\t\t\t\tORDER BY tablename">>))
        ELSE IF M(showTablesFromRe) # <<>> THEN
            LET dbName == M(showTablesFromRe)[3]
            IN  Ok([Query |-> Sprintf(<<"SELECT tablename AS \"Tables_in_", "%s", "\" \n\t\t\t\t\tFROM pg_tables \n\t\t\t\t\tWHERE schemaname = 'public' \n\t\t\t\t\tORDER BY tablename">>, <<dbName>>),
                    IsSpecial |-> TRUE, SpecialType |-> "cross_db_query", Args |-> <<dbName>>])
        ELSE IF M(showColumnsRe) # <<>> THEN
            Ok(QueryResult(Sprintf(<<"SELECT \n\t\t\t\tcolumn_name AS \"Field\",\n\t\t\t\tdata_type AS \"Type\",\n\t\t\t\tCASE WHEN is_nullable = 'YES' THEN 'YES' ELSE 'NO' END AS \"Null\",\n\t\t\t\tCASE \n\t\t\t\t\tWHEN column_default LIKE 'nextval", "%%", "' THEN 'PRI'\n\t\t\t\t\tELSE ''\n\t\t\t\tEND AS \"Key\",\n\t\t\t\tcolumn_default AS \"Default\",\n\t\t\t\tCASE \n\t\t\t\t\tWHEN column_default LIKE 'nextval", "%%", "' THEN 'auto_increment'\n\t\t\t\t\tELSE ''\n\t\t\t\tEND AS \"Extra\"\n\t\t\tFROM information_schema.columns \n\t\t\tWHERE table_schema = 'public' AND table_name = '", "%s", "'\n\t\t\tORDER BY ordinal_position">>, <<M(showColumnsRe)[3]>>)))
        ELSE IF M(showFullColumnsRe) # <<>> THEN
            Ok(QueryResult(Sprintf(<<"SELECT \n\t\t\t\tcolumn_name AS \"Field\",\n\t\t\t\tdata_type AS \"Type\",\n\t\t\t\tcharacter_set_name AS \"Collation\",\n\t\t\t\tCASE WHEN is_nullable = 'YES' THEN 'YES' ELSE 'NO' END AS \"Null\",\n\t\t\t\t'' AS \"Key\",\n\t\t\t\tcolumn_default AS \"Default\",\n\t\t\t\t'' AS \"Extra\",\n\t\t\t\t'select,insert,update,references' AS \"Privileges\",\n\t\t\t\t'' AS \"Comment\"\n\t\t\tFROM information_schema.columns \n\t\t\tWHERE table_schema = 'public' AND table_name = '", "%s", "'\n\t\t\tORDER BY ordinal_position">>, <<M(showFullColumnsRe)[2]>>)))
        ELSE IF M(showCreateTableRe) # <<>> THEN
            Ok(SpecialResult("show_create_table", <<M(showCreateTableRe)[2]>>))
        ELSE IF M(showCreateDatabaseRe) # <<>> THEN
            Ok(SpecialResult("show_create_database", <<M(showCreateDatabaseRe)[2]>>))
        ELSE IF M(showIndexRe) # <<>> THEN
            Ok(QueryResult(Sprintf(<<"SELECT \n\t\t\t\tschemaname AS \"Table\",\n\t\t\t\tindexname AS \"Key_name\",\n\t\t\t\tindexdef AS \"Index_definition\"\n\t\t\tFROM pg_indexes \n\t\t\tWHERE schemaname = 'public' AND tablename = '", "%s", "'">>, <<M(showIndexRe)[3]>>)))
        ELSE IF upperTrimmed = Phrase(<<Text.kSHOW, Text.kSTATUS>>) THEN
            Ok(QueryResult(<<"SELECT name AS \"Variable_name\", setting AS \"Value\" \n\t\t\t\t\tFROM pg_settings \n\t\t\t\t\tORDER BY name \n\t\t\t\t\tLIMIT 50">>))
        ELSE IF upperTrimmed = Phrase(<<Text.kSHOW, Text.kVARIABLES>>) \/ upperTrimmed = Phrase(<<Text.kSHOW, Text.kGLOBAL, Text.kVARIABLES>>) THEN
            Ok(QueryResult(<<"SELECT name AS \"Variable_name\", setting AS \"Value\" \n\t\t\t\t\tFROM pg_settings \n\t\t\t\t\tORDER BY name">>))
        ELSE IF M(showVarsLikeRe) # <<>> THEN
            LET p1 == ReplaceAll(M(showVarsLikeRe)[3], <<"%">>, <<"%", "%">>)
                p2 == ReplaceAll(p1, <<"_">>, <<".">>)
                pattern == ReplaceAll(p2, <<"%", "%">>, <<".", "*">>)
            IN  Ok(QueryResult(Sprintf(<<"SELECT name AS \"Variable_name\", setting AS \"Value\" \n\t\t\t\t\tFROM pg_settings \n\t\t\t\t\tWHERE name ~ '", "%s", "'\n\t\t\t\t\tORDER BY name">>, <<pattern>>)))
        ELSE IF upperTrimmed = Phrase(<<Text.kSHOW, Text.kPROCESSLIST>>) \/ upperTrimmed = Phrase(<<Text.kSHOW, Text.kFULL, Text.kPROCESSLIST>>) THEN
            Ok(QueryResult(<<"SELECT \n\t\t\t\tpid AS \"Id\",\n\t\t\t\tusename AS \"User\",\n\t\t\t\tclient_addr AS \"Host\",\n\t\t\t\tdatname AS \"db\",\n\t\t\t\tstate AS \"Command\",\n\t\t\t\tEXTRACT(EPOCH FROM (now() - query_start))::int AS \"Time\",\n\t\t\t\tstate AS \"State\",\n\t\t\t\tquery AS \"Info\"\n\t\t\tFROM pg_stat_activity \n\t\t\tWHERE pid <> pg_backend_pid()">>))
        ELSE IF upperTrimmed = Phrase(<<Text.kSHOW, Text.kGRANTS>>) THEN
            Ok(QueryResult(<<"SELECT \n\t\t\t\tgrantee AS \"User\",\n\t\t\t\tprivilege_type AS \"Privilege\",\n\t\t\t\ttable_schema || '.' || table_name AS \"On\"\n\t\t\tFROM information_schema.role_table_grants \n\t\t\tWHERE grantee = current_user">>))
        ELSE IF M(showGrantsForRe) # <<>> THEN
            Ok(QueryResult(Sprintf(<<"SELECT \n\t\t\t\tgrantee AS \"User\",\n\t\t\t\tprivilege_type AS \"Privilege\",\n\t\t\t\ttable_schema || '.' || table_name AS \"On\"\n\t\t\tFROM information_schema.role_table_grants \n\t\t\tWHERE grantee = '", "%s", "'">>, <<M(showGrantsForRe)[2]>>)))
        ELSE IF upperTrimmed = Phrase(<<Text.kSHOW, Text.kTABLE, Text.kSTATUS>>) THEN
            Ok(QueryResult(<<"SELECT \n\t\t\t\trelname AS \"Name\",\n\t\t\t\tCASE relkind WHEN 'r' THEN 'BASE TABLE' WHEN 'v' THEN 'VIEW' END AS \"Engine\",\n\t\t\t\tpg_size_pretty(pg_total_relation_size(oid)) AS \"Data_length\",\n\t\t\t\tn_live_tup AS \"Rows\"\n\t\t\tFROM pg_stat_user_tables \n\t\t\tJOIN pg_class ON relname = pg_stat_user_tables.relname\n\t\t\tWHERE schemaname = 'public'">>))
        ELSE IF upperTrimmed = Phrase(<<Text.kSHOW, Text.kSCHEMAS>>) THEN
            Ok(QueryResult(<<"SELECT schema_name AS \"Database\" \n\t\t\t\t\tFROM information_schema.schemata \n\t\t\t\t\tORDER BY schema_name">>))
        ELSE IF upperTrimmed = Phrase(<<Text.kSHOW, Text.kTRIGGERS>>) THEN
            Ok(QueryResult(<<"SELECT \n\t\t\t\ttrigger_name AS \"Trigger\",\n\t\t\t\tevent_manipulation AS \"Event\",\n\t\t\t\tevent_object_table AS \"Table\",\n\t\t\t\taction_statement AS \"Statement\",\n\t\t\t\taction_timing AS \"Timing\"\n\t\t\tFROM information_schema.triggers \n\t\t\tWHERE trigger_schema = 'public'">>))
        ELSE IF upperTrimmed = Phrase(<<Text.kSHOW, Text.kFUNCTION, Text.kSTATUS>>) \/ upperTrimmed = Phrase(<<Text.kSHOW, Text.kPROCEDURE, Text.kSTATUS>>) THEN
            Ok(QueryResult(<<"SELECT \n\t\t\t\troutine_name AS \"Name\",\n\t\t\t\troutine_type AS \"Type\",\n\t\t\t\troutine_schema AS \"Db\",\n\t\t\t\texternal_language AS \"Language\"\n\t\t\tFROM information_schema.routines \n\t\t\tWHERE routine_schema = 'public'">>))
        ELSE IF M(useDbRe) # <<>> THEN
            Ok(SpecialResult("use_database", <<M(useDbRe)[2]>>))
        ELSE IF upperTrimmed = Phrase(<<Text.kSHOW, Text.kENGINES>>) THEN
            Ok(QueryResult(<<"SELECT \n\t\t\t\t'PostgreSQL' AS \"Engine\",\n\t\t\t\t'DEFAULT' AS \"Support\",\n\t\t\t\t'PostgreSQL native storage' AS \"Comment\"">>))
        ELSE IF upperTrimmed = Phrase(<<Text.kSHOW, Text.kCHARSET>>) \/ upperTrimmed = Phrase(<<Text.kSHOW, Text.kCHARACTER, Text.kSET>>) THEN
            Ok(QueryResult(<<"SELECT \n\t\t\t\tpg_encoding_to_char(encoding) AS \"Charset\",\n\t\t\t\tpg_encoding_to_char(encoding) AS \"Description\",\n\t\t\t\t'UTF-8' AS \"Default collation\"\n\t\t\tFROM pg_database \n\t\t\tWHERE datname = current_database()">>))
        ELSE IF upperTrimmed = Phrase(<<Text.kSHOW, Text.kCOLLATION>>) THEN
            Ok(QueryResult(<<"SELECT \n\t\t\t\tcollname AS \"Collation\",\n\t\t\t\t'utf8' AS \"Charset\"\n\t\t\tFROM pg_collation \n\t\t\tLIMIT 50">>))
        ELSE IF upperTrimmed = Phrase(<<Text.kSHOW, Text.kWARNINGS>>) \/ upperTrimmed = Phrase(<<Text.kSHOW, Text.kERRORS>>) THEN
            Ok(QueryResult(<<"SELECT 'Note' AS \"Level\", 0 AS \"Code\", 'PostgreSQL does not store warnings/errors like MySQL' AS \"Message\"">>))
        ELSE IF upperTrimmed = Phrase(<<Text.kSELECT, Text.kDATABASE_CALL>>) THEN
            Ok(QueryResult(<<"SELECT current_database() AS \"database()\"">>))
        ELSE IF upperTrimmed = Phrase(<<Text.kSELECT, Text.kVERSION_CALL>>) THEN
            Ok(QueryResult(<<"SELECT version() AS \"version()\"">>))
        ELSE IF upperTrimmed = Phrase(<<Text.kSELECT, Text.kUSER_CALL>>) \/ upperTrimmed = Phrase(<<Text.kSELECT, Text.kCURRENT_USER_CALL>>) THEN
            Ok(QueryResult(<<"SELECT current_user AS \"user()\"">>))
        ELSE IF upperTrimmed = Phrase(<<Text.kSELECT, Text.kNOW_CALL>>) THEN
            Ok(QueryResult(<<"SELECT now() AS \"now()\"">>))
        ELSE IF HasPrefix(input, <<"\\">>) THEN translateBackslashCommand(input)
        ELSE Ok(QueryResult(input))

\* faulty variant: the branch for the native dialect is missing
Translate_NoNativeBranch(t, input0) == translateForPostgres(TrimSpace(input0))

\* faulty variant: the terminator is stripped from the input itself
Translate_TerminatorStripped(t, input0) ==
    LET input == TrimSuffix(TrimSpace(input0), <<";">>)
    IN  IF t = MySQL THEN Ok(QueryResult(input))
        ELSE translateForPostgres(input)

(***************************************************************************)
(* Translate, for a translator whose dbType is t                            *)
(***************************************************************************)
Translate(t, input0) ==
    LET input == TrimSpace(input0)
    IN  IF t = MySQL THEN Ok(QueryResult(input))
        ELSE translateForPostgres(input)

(***************************************************************************)
(* The inputs.  Bounded sets of command lines a user can type: the phrases  *)
(* of the table in several letter cases and spacings, the templated phrases *)
(* with names, LIKE patterns, the directives with and without arguments,    *)
(* ordinary SQL, and every short string over a small alphabet; each with    *)
(* and without surrounding white space and trailing terminators.            *)
(***************************************************************************)
MaxNameLen == 2

MaxPatLen == 3

MaxShortLen == 3

\* every string of 1..n characters of an alphabet
Strings(alphabet, n) == UNION {[1..k -> alphabet] : k \in 1..n}

Names == Strings({"t", "U"}, MaxNameLen) \cup {<<"_">>, <<"a", "_", "1">>}

Patterns == Strings({"m", "%", "_"}, MaxPatLen) \cup {<<"m", ".", "%">>, <<"%", "%", "_", "_", "%">>}

ShortInputs == {<<>>} \cup Strings({"\\", "c", "z", " ", ";"}, MaxShortLen)

SomeName == <<"U", "s", "e", "r", "_", "1">>

\* a phrase in a letter case
InCase(s, form) ==
    CASE form = "upper" -> ToUpper(s)
      [] form = "lower" -> ToLower(s)
      [] form = "mixed" -> [i \in 1..Len(s) |-> IF i % 2 = 0 THEN ToLowerChar(s[i])
                                                ELSE ToUpperChar(s[i])]

CaseForms == {"upper", "lower", "mixed"}

\* words joined by a separator
RECURSIVE Join(_, _)
Join(words, sep) ==
    IF Len(words) = 1 THEN Head(words)
    ELSE Head(words) \o sep \o Join(Tail(words), sep)

Separators == {<<" ">>, <<" ", "\t">>}

\* the literal phrases of translateForPostgres and handleHelpCommands
LiteralPhrases ==
    { <<Text.kSHOW, Text.kDATABASES>>, <<Text.kSHOW, Text.kTABLES>>,
      <<Text.kSHOW, Text.kFULL, Text.kTABLES>>, <<Text.kSHOW, Text.kSTATUS>>,
      <<Text.kSHOW, Text.kVARIABLES>>, <<Text.kSHOW, Text.kGLOBAL, Text.kVARIABLES>>,
      <<Text.kSHOW, Text.kPROCESSLIST>>, <<Text.kSHOW, Text.kFULL, Text.kPROCESSLIST>>,
      <<Text.kSHOW, Text.kGRANTS>>, <<Text.kSHOW, Text.kTABLE, Text.kSTATUS>>,
      <<Text.kSHOW, Text.kSCHEMAS>>, <<Text.kSHOW, Text.kTRIGGERS>>,
      <<Text.kSHOW, Text.kFUNCTION, Text.kSTATUS>>,
      <<Text.kSHOW, Text.kPROCEDURE, Text.kSTATUS>>,
      <<Text.kSHOW, Text.kENGINES>>, <<Text.kSHOW, Text.kCHARSET>>,
      <<Text.kSHOW, Text.kCHARACTER, Text.kSET>>, <<Text.kSHOW, Text.kCOLLATION>>,
      <<Text.kSHOW, Text.kWARNINGS>>, <<Text.kSHOW, Text.kERRORS>>,
      <<Text.kSELECT, Text.kDATABASE_CALL>>, <<Text.kSELECT, Text.kVERSION_CALL>>,
      <<Text.kSELECT, Text.kUSER_CALL>>, <<Text.kSELECT, Text.kCURRENT_USER_CALL>>,
      <<Text.kSELECT, Text.kNOW_CALL>>,
      <<Text.kSHOW, Text.kHELP_FLAG>>, <<Text.kSHOW, Text.kCREATE, Text.kHELP_FLAG>>,
      <<Text.kSHOW, Text.kTABLES, Text.kHELP_FLAG>>,
      <<Text.kSHOW, Text.kCOLUMNS, Text.kHELP_FLAG>>,
      <<Text.kDESC, Text.kHELP_FLAG>>, <<Text.kDESCRIBE, Text.kHELP_FLAG>> }

\* the heads of the templated phrases, each followed by one captured name
TemplateHeads ==
    { <<Text.kSHOW, Text.kTABLES, Text.kFROM>>, <<Text.kSHOW, Text.kTABLES, Text.kIN>>,
      <<Text.kSHOW, Text.kCOLUMNS, Text.kFROM>>, <<Text.kDESC>>, <<Text.kDESCRIBE>>,
      <<Text.kSHOW, Text.kFULL, Text.kCOLUMNS, Text.kFROM>>,
      <<Text.kSHOW, Text.kCREATE, Text.kTABLE>>, <<Text.kSHOW, Text.kCREATE, Text.kDATABASE>>,
      <<Text.kSHOW, Text.kINDEX, Text.kFROM>>, <<Text.kSHOW, Text.kINDEXES, Text.kFROM>>,
      <<Text.kSHOW, Text.kKEYS, Text.kFROM>>, <<Text.kSHOW, Text.kGRANTS, Text.kFOR>>,
      <<Text.kUSE>> }

LikeHeads ==
    { <<Text.kSHOW, Text.kVARIABLES, Text.kLIKE>>,
      <<Text.kSHOW, Text.kGLOBAL, Text.kVARIABLES, Text.kLIKE>> }

Quoted(s) == <<"'">> \o s \o <<"'">>

\* the directives of translateBackslashCommand and some it does not know
DirectiveWords ==
    { Directive.l, Directive.list, Directive.dt, Directive.dtplus, Directive.d,
      Directive.di, Directive.dv, Directive.df, Directive.du, Directive.dn,
      Directive.c, Directive.connect, Directive.q, Directive.quit, Directive.qmark,
      Directive.help, Directive.x,
      <<"\\", "z">>, <<"\\", "L">>, <<"\\", "d", "x">>, <<"\\">> }

Bodies ==
    {InCase(Join(ph, sep), form) : ph \in LiteralPhrases, sep \in Separators, form \in CaseForms}
    \cup {InCase(Join(h, sep), form) \o sep \o SomeName :
              h \in TemplateHeads, sep \in Separators, form \in CaseForms}
    \cup {Join(h, <<" ">>) \o <<" ">> \o n : h \in TemplateHeads, n \in Names}
    \cup {Join(h, <<" ">>) : h \in TemplateHeads}
    \cup {Join(<<Text.kSHOW, Text.kGRANTS, Text.kFOR>>, <<" ">>) \o <<" ">> \o u :
              u \in {Quoted(SomeName), Quoted(SomeName) \o <<"@">> \o Quoted(<<"h">>),
                     SomeName \o <<"@", "h">>, SomeName \o <<"@">>}}
    \cup {InCase(Join(h, sep), form) \o sep \o Quoted(<<"m", "a", "x", "%">>) :
              h \in LikeHeads, sep \in Separators, form \in CaseForms}
    \cup {Join(h, <<" ">>) \o <<" ">> \o Quoted(p) : h \in LikeHeads, p \in Patterns}
    \cup {Join(h, <<" ">>) \o <<" ">> \o p : h \in LikeHeads, p \in {<<"m">>, Quoted(<<>>)}}
    \cup DirectiveWords
    \cup {d \o <<" ">> \o n : d \in DirectiveWords, n \in Names \cup {SomeName}}
    \cup {d \o <<" ", "\t">> \o SomeName \o <<" ">> \o <<"t">> : d \in DirectiveWords}
    \cup {d \o <<" ">> \o <<"a", "-", "b">> : d \in {Directive.c, Directive.d}}
    \cup {Join(<<Text.kSELECT, <<"1">>>>, <<" ">>),
          Join(<<Text.kSELECT, <<"*">>, Text.kFROM, SomeName>>, <<" ">>),
          Join(<<Text.kSHOW, Text.kDATABASES, SomeName>>, <<" ">>),
          Join(<<Text.kUSE, <<"a", "-", "b">>>>, <<" ">>),
          Join(<<Text.kSHOW, Text.kHELP_FLAG, SomeName>>, <<" ">>),
          Join(<<Text.kSELECT, <<"'", "\\", "'">>>>, <<" ">>)}

ArgNames == Names \cup {SomeName}

Terminators == {<<>>, <<";">>}

\* the switch directive alone, and followed by a name (and more)
ConnectForms ==
    {[text |-> w[1] \o d \o w[2], arg |-> <<>>] :
        d \in {Directive.c, Directive.connect}, w \in {<<<<>>, <<>>>>, <<<<"\t">>, <<" ">>>>}}
    \cup {[text |-> d \o <<" ">> \o n \o rest, arg |-> <<n>>] :
            d \in {Directive.c, Directive.connect}, n \in ArgNames,
            rest \in {<<>>, <<" ">>, <<" ", "t">>}}

\* USE in any letter case, white space, a name, and at most one terminator
UseForms ==
    {[text |-> InCase(Text.kUSE, form) \o sep \o n \o term, arg |-> n] :
        form \in CaseForms, sep \in Separators, n \in ArgNames, term \in Terminators}

\* SHOW DATABASES in any letter case, with at most one terminator
ShowDatabasesForms ==
    {InCase(Phrase(<<Text.kSHOW, Text.kDATABASES>>), form) \o term :
        form \in CaseForms, term \in Terminators}

\* the three phrasings that describe the columns of a table
DescribeForms ==
    {[text |-> InCase(Join(h, sep), form) \o sep \o t \o term, arg |-> t] :
        h \in {<<Text.kSHOW, Text.kCOLUMNS, Text.kFROM>>, <<Text.kDESC>>, <<Text.kDESCRIBE>>},
        sep \in Separators, form \in CaseForms, t \in ArgNames, term \in Terminators}

\* SHOW [GLOBAL] VARIABLES LIKE with a quoted pattern
LikeForms ==
    {[text |-> InCase(Join(h, sep), form) \o sep \o Quoted(p) \o term, arg |-> p] :
        h \in LikeHeads, sep \in Separators, form \in CaseForms,
        p \in {<<"m", "a", "x", "%">>}, term \in Terminators}
    \cup {[text |-> Join(h, <<" ">>) \o <<" ">> \o Quoted(p) \o term, arg |-> p] :
            h \in LikeHeads, p \in Patterns, term \in Terminators}

\* SHOW FULL COLUMNS FROM with a table name
FullColumnsForms ==
    {[text |-> InCase(Join(<<Text.kSHOW, Text.kFULL, Text.kCOLUMNS, Text.kFROM>>, sep), form)
                 \o sep \o t \o term,
      arg |-> t] :
        sep \in Separators, form \in CaseForms, t \in ArgNames, term \in Terminators}

\* SHOW FULL TABLES in any letter case, with at most one terminator
FullTablesForms ==
    {InCase(Phrase(<<Text.kSHOW, Text.kFULL, Text.kTABLES>>), form) \o term :
        form \in CaseForms, term \in Terminators}

\* the texts of the shapes above
FormInputs ==
    {f.text : f \in ConnectForms \cup UseForms \cup DescribeForms \cup LikeForms
                      \cup FullColumnsForms}
    \cup ShowDatabasesForms \cup FullTablesForms

\* white space before the command, and terminators and white space after it
Wraps ==
    { <<<<>>, <<>>>>, <<<<>>, <<";">>>>, <<<<" ">>, <<";", " ">>>>,
      <<<<>>, <<";", ";">>>>, <<<<>>, <<" ", ";">>>>, <<<<"\t">>, <<" ">>>> }

Inputs ==
    ShortInputs \cup FormInputs \cup {w[1] \o b \o w[2] : b \in Bodies, w \in Wraps}

DBTypes == {MySQL, PostgreSQL}

(***************************************************************************)
(* package db.  A handle (an sql.DB) is the database its data source name    *)
(* selects and whether Close was called on it.  A Connection holds a handle *)
(* and its Config, of which the model keeps Database and DBType.            *)
(***************************************************************************)
\* sql.Open(driver, dsn) followed by a Ping that succeeded
Open(database) == [database |-> database, closed |-> FALSE]

\* c.DB.Close()
Close(handle) == [handle EXCEPT !.closed = TRUE]

\* func New(cfg): connects is whether sql.Open and Ping succeed
dbNew(cfg, connects) ==
    IF connects
    THEN [conn |-> [DB |-> Open(cfg.Database), Config |-> cfg], err |-> Nil]
    ELSE [conn |-> Nil, err |-> [msg |-> <<"failed to connect to database">>]]

\* func (c *Connection) Query(query): a closed handle refuses every query;
\* answers is what the server does with it on an open one
Query(c, query, answers) ==
    IF c.DB.closed
    THEN [rows |-> Nil, err |-> [msg |-> <<"sql: database is closed">>]]
    ELSE IF answers = "error"
         THEN [rows |-> Nil, err |-> [msg |-> <<"query failed">>]]
         ELSE [rows |-> [query |-> query, database |-> c.DB.database, answers |-> answers],
               err |-> Nil]

\* func (c *Connection) GetCurrentDatabase()
GetCurrentDatabase(c) == c.Config.Database

\* faulty variant: the replacement is opened and not kept
SetDatabase_NotSwapped(c, dbName, connects) ==
    LET named == [c EXCEPT !.Config.Database = dbName]
        closed == [named EXCEPT !.DB = Close(named.DB)]
        new == dbNew(closed.Config, connects)
    IN  IF new.err # Nil THEN [conn |-> closed, err |-> new.err]
        ELSE [conn |-> closed, err |-> Nil]

\* func (c *Connection) SetDatabase(dbName): the name is recorded and the
\* handle closed before the replacement is opened
SetDatabase(c, dbName, connects) ==
    LET named == [c EXCEPT !.Config.Database = dbName]
        closed == [named EXCEPT !.DB = Close(named.DB)]
        new == dbNew(closed.Config, connects)
    IN  IF new.err # Nil THEN [conn |-> closed, err |-> new.err]
        ELSE [conn |-> [closed EXCEPT !.DB = new.conn.DB], err |-> Nil]

(***************************************************************************)
(* package client.  A client c is [config, conn, expandedOutput]; env is    *)
(* what the collaborators do during one command: env.connects for a         *)
(* reconnect, env.answers for a query ("rows", "error", or "scan error"     *)
(* when reading the rows fails).  An operation returns the client after it, *)
(* the error it returns, the queries it sent with the handle each was sent  *)
(* on, what it printed, and whether it ended the process.                   *)
(***************************************************************************)
Answers == {"rows", "error", "scan error"}

\* no command both reconnects and sends a query, so one choice settles both
Envs == {[connects |-> a = "rows", answers |-> a] : a \in Answers}

Outcome(c, e, sent, printed, exited) ==
    [c |-> c, err |-> e, sent |-> sent, printed |-> printed, exited |-> exited]

\* func (c *Client) printResults(rows)
printResults(c, rows) ==
    IF rows.answers = "scan error" THEN [msg |-> <<"scan failed">>] ELSE Nil

\* rows, err := c.conn.Query(query); if err != nil { return err };
\* return c.printResults(rows)
queryAndPrint(c, query, env) ==
    LET q == Query(c.conn, query, env.answers)
        sent == <<[query |-> query, DB |-> c.conn.DB]>>
    IN  IF q.err # Nil THEN Outcome(c, q.err, sent, "", FALSE)
        ELSE Outcome(c, printResults(c, q.rows), sent, "rows", FALSE)

\* func (c *Client) showCreateTable(tableName)
showCreateTable(c, tableName, env) ==
    IF c.conn.Config.DBType = MySQL
    THEN queryAndPrint(c, <<"SHOW CREATE TABLE ">> \o tableName, env)
    ELSE queryAndPrint(c, Sprintf(
       <<"\n\t\tSELECT \n\t\t\t'CREATE TABLE ' || '",
       "%s",
       "' || ' (' || E'\\n' ||\n\t\t\tstring_agg(\n\t\t\t\t'  ' || column_name || ' ' || \n\t\t\t\tCASE \n\t\t\t\t\tWHEN data_type = 'character varying' THEN 'VARCHAR(' || character_maximum_length || ')'\n\t\t\t\t\tWHEN data_type = 'character' THEN 'CHAR(' || character_maximum_length || ')'\n\t\t\t\t\tWHEN data_type = 'numeric' THEN 'NUMERIC(' || numeric_precision || ',' || numeric_scale || ')'\n\t\t\t\t\tELSE UPPER(data_type)\n\t\t\t\tEND ||\n\t\t\t\tCASE WHEN is_nullable = 'NO' THEN ' NOT NULL' ELSE '' END ||\n\t\t\t\tCASE WHEN column_default IS NOT NULL THEN ' DEFAULT ' || column_default ELSE '' END,\n\t\t\t\t',' || E'\\n'\n\t\t\t\tORDER BY ordinal_position\n\t\t\t) || E'\\n);' AS \"Create Table\"\n\t\tFROM information_schema.columns\n\t\tWHERE table_schema = 'public' AND table_name = '",
       "%s",
       "'\n\t\tGROUP BY table_name\n\t">>,
           <<tableName, tableName>>), env)

\* func (c *Client) showCreateDatabase(dbName)
showCreateDatabase(c, dbName, env) ==
    IF c.conn.Config.DBType = MySQL
    THEN queryAndPrint(c, <<"SHOW CREATE DATABASE ">> \o dbName, env)
    ELSE queryAndPrint(c, Sprintf(
       <<"\n\t\tSELECT \n\t\t\t'CREATE DATABASE ' || datname || \n\t\t\t' WITH OWNER = ' || pg_catalog.pg_get_userbyid(datdba) ||\n\t\t\t' ENCODING = ''' || pg_encoding_to_char(encoding) || '''' ||\n\t\t\tCASE \n\t\t\t\tWHEN datcollate IS NOT NULL THEN ' LC_COLLATE = ''' || datcollate || ''''\n\t\t\t\tELSE ''\n\t\t\tEND ||\n\t\t\tCASE \n\t\t\t\tWHEN datctype IS NOT NULL THEN ' LC_CTYPE = ''' || datctype || ''''\n\t\t\t\tELSE ''\n\t\t\tEND ||\n\t\t\t';' AS \"Create Database\"\n\t\tFROM pg_database \n\t\tWHERE datname = '",
       "%s",
       "'\n\t">>,
           <<dbName>>), env)

\* fmt.Errorf of the dispatcher
dispatchError(text) == [msg |-> <<text>>]

\* faulty variant: the name is recorded before the mutator is called
switchDatabase_NameFirst(c, dbName, connects) ==
    LET named == [c EXCEPT !.config.Database = dbName]
        set == SetDatabase(c.conn, dbName, connects)
    IN  IF set.err # Nil
        THEN Outcome([named EXCEPT !.conn = set.conn], set.err, <<>>, "", FALSE)
        ELSE Outcome([named EXCEPT !.conn = set.conn], Nil, <<>>, "Database changed", FALSE)

\* case "use_database", after the argument check
switchDatabase(c, dbName, connects) ==
    LET set == SetDatabase(c.conn, dbName, connects)
    IN  IF set.err # Nil
        THEN Outcome([c EXCEPT !.conn = set.conn], set.err, <<>>, "", FALSE)
        ELSE Outcome([c EXCEPT !.conn = set.conn, !.config.Database = dbName],
                     Nil, <<>>, "Database changed", FALSE)

\* faulty variant: the flag is set, not flipped
toggleExpanded_Set(c) ==
    Outcome([c EXCEPT !.expandedOutput = TRUE], Nil, <<>>, "Expanded display", FALSE)

\* case "toggle_expanded"
toggleExpanded(c) ==
    Outcome([c EXCEPT !.expandedOutput = ~c.expandedOutput], Nil, <<>>,
            "Expanded display", FALSE)

\* faulty variant: the query is sent on a handle of the named database
crossDbQuery_Honored(c, r, env) ==
    queryAndPrint([c EXCEPT !.conn.DB = Open(r.Args[1])], r.Query, env)

\* case "cross_db_query"
crossDbQuery(c, r, env) == queryAndPrint(c, r.Query, env)

\* func (c *Client) handleSpecialCommand(result)
handleSpecialCommand(c, r, env) ==
    CASE r.SpecialType = "use_database" ->
            IF Len(r.Args) < 1
            THEN Outcome(c, dispatchError("database name required"), <<>>, "", FALSE)
            ELSE switchDatabase(c, r.Args[1], env.connects)
      [] r.SpecialType = "quit" -> Outcome(c, Nil, <<>>, "Bye", TRUE)
      [] r.SpecialType = "help" -> Outcome(c, Nil, <<>>, "help", FALSE)
      [] r.SpecialType = "toggle_expanded" -> toggleExpanded(c)
      [] r.SpecialType = "show_create_table" ->
            IF Len(r.Args) < 1
            THEN Outcome(c, dispatchError("table name required"), <<>>, "", FALSE)
            ELSE showCreateTable(c, r.Args[1], env)
      [] r.SpecialType = "show_create_database" ->
            IF Len(r.Args) < 1
            THEN Outcome(c, dispatchError("database name required"), <<>>, "", FALSE)
            ELSE showCreateDatabase(c, r.Args[1], env)
      [] r.SpecialType = "cross_db_query" -> crossDbQuery(c, r, env)
      [] r.SpecialType \in {"show_help", "show_create_help", "show_tables_help",
                            "show_columns_help"} ->
            Outcome(c, Nil, <<>>, r.SpecialType, FALSE)
      [] OTHER ->
            Outcome(c, [msg |-> Sprintf(<<"unknown special command: ", "%s">>,
                                        <<<<r.SpecialType>>>>)],
                    <<>>, "", FALSE)

\* func (c *Client) executeQuery(query), with what Translate returned for it
executeQuery(c, translated, env) ==
    IF translated.err # Nil THEN Outcome(c, translated.err, <<>>, "", FALSE)
    ELSE IF translated.result.IsSpecial
         THEN handleSpecialCommand(c, translated.result, env)
         ELSE queryAndPrint(c, translated.result.Query, env)

\* func New(cfg *Config) of package client, for a start-up connection that
\* succeeded (a failure ends the process before there is a session)
clientNew(type, database) ==
    [config |-> [Database |-> database, DBType |-> type],
     conn |-> dbNew([Database |-> database, DBType |-> type], TRUE).conn,
     expandedOutput |-> FALSE]

(***************************************************************************)
(* The lines a session reads.                                               *)
(***************************************************************************)
\* the longest multi-line buffer the session is followed to
MaxBufferLen == 10

StartDatabase == <<"d", "b">>

OtherDatabase == <<"t">>

SelectOne == <<"S", "E", "L", "E", "C", "T", " ", "1">>

\* lines that are complete commands
CompleteLines ==
    { Phrase(<<Text.kUSE, OtherDatabase>>) \o <<";">>,
      Directive.c \o <<" ">> \o OtherDatabase,
      Directive.c,
      Directive.x,
      <<" ">> \o Directive.x \o <<" ">>,
      <<"\\", "z">>,
      Directive.dt \o <<";">>,
      Directive.q \o <<" ", "n", "o", "w">>,
      Directive.qmark \o <<" ", "x">>,
      Phrase(<<Text.kSHOW, Text.kTABLES, Text.kFROM, OtherDatabase>>) \o <<";">>,
      Phrase(<<Text.kSHOW, Text.kCREATE, Text.kTABLE, OtherDatabase>>) \o <<";">>,
      Phrase(<<Text.kSHOW, Text.kCREATE, Text.kDATABASE, OtherDatabase>>) \o <<";">>,
      Phrase(<<Text.kSHOW, Text.kHELP_FLAG>>) \o <<";">>,
      Text.kDATABASES \o <<";">>,
      SelectOne \o <<";">>,
      <<";">> }

\* lines that begin or continue a multi-line command
PartialLines == { Phrase(<<Text.kUSE, OtherDatabase>>), Text.kSHOW }

\* lines the loop answers itself, and lines it skips
LoopLines ==
    { <<"q", "u", "i", "t">>, <<"E", "x", "i", "t">>, Directive.q,
      <<"h", "e", "l", "p">>, Directive.qmark, <<>>, <<" ">> }

SessionLines == CompleteLines \cup PartialLines \cup LoopLines

(***************************************************************************)
(* The state.  dbType is the translator's dialect; input is the command     *)
(* passed to Translate, result and err what the call returned; in a session *)
(* they are those of the last iteration of the loop, and pc = "ready" when  *)
(* that iteration did not call Translate.                                   *)
(* config, conn and expandedOutput are the fields of the Client;            *)
(* multiLineBuffer and inMultiLine are the locals of Run; loop is where Run *)
(* stands.  sent, printed and reported are what the last iteration of the   *)
(* loop sent to the server, printed, and reported on the error stream.      *)
(***************************************************************************)
VARIABLES dbType, input, result, err, pc,
          config, conn, expandedOutput, multiLineBuffer, inMultiLine, loop,
          sent, printed, reported

translation == <<dbType, input, result, err, pc>>

session == <<config, conn, expandedOutput, multiLineBuffer, inMultiLine, loop,
             sent, printed, reported>>

vars == <<translation, session>>

\* the Client as a value
client == [config |-> config, conn |-> conn, expandedOutput |-> expandedOutput]

\* client.New(cfg) and the first lines of Run
Started ==
    LET c == clientNew(dbType, StartDatabase)
    IN  /\ config = c.config
        /\ conn = c.conn
        /\ expandedOutput = c.expandedOutput
        /\ multiLineBuffer = <<>>
        /\ inMultiLine = FALSE
        /\ loop = "reading"
        /\ sent = <<>>
        /\ printed = ""
        /\ reported = Nil

\* translator.New(dbType), and the command the caller is about to pass
Init ==
    /\ dbType \in DBTypes
    /\ input \in Inputs
    /\ result = Nil
    /\ err = Nil
    /\ pc = "ready"
    /\ Started

\* faulty variant: the translator remembers that it was asked to translate
DoTranslate_DialectLatched ==
    /\ LET r == Translate(dbType, input)
       IN  /\ result' = r.result
           /\ err' = r.err
    /\ pc' = "returned"
    /\ dbType' = PostgreSQL
    /\ UNCHANGED input
    /\ UNCHANGED session

\* result, err := t.Translate(input); the translator can be called again
DoTranslate ==
    /\ LET r == Translate(dbType, input)
       IN  /\ result' = r.result
           /\ err' = r.err
    /\ pc' = "returned"
    /\ UNCHANGED <<dbType, input>>
    /\ UNCHANGED session

Next == DoTranslate

Spec == Init /\ [][Next]_vars

(***************************************************************************)
(* The session: Run reads lines until the line source ends.  Each action is *)
(* one iteration of its loop.                                               *)
(***************************************************************************)
\* the iteration does not call Translate
NoCall ==
    /\ input' = <<>>
    /\ result' = Nil
    /\ err' = Nil
    /\ pc' = "ready"
    /\ UNCHANGED dbType

SessionInit ==
    /\ dbType \in DBTypes
    /\ input = <<>>
    /\ result = Nil
    /\ err = Nil
    /\ pc = "ready"
    /\ Started

QuitWords == {<<"q", "u", "i", "t">>, <<"e", "x", "i", "t">>, Directive.q, Directive.quit}

HelpWords == {<<"h", "e", "l", "p">>, Directive.qmark, Directive.help}

\* the line is not complete: no terminator at its end, no marker at its start
Incomplete(line) == ~HasSuffix(line, <<";">>) /\ ~HasPrefix(line, <<"\\">>)

\* faulty variant: the flag is cleared and the text typed so far is kept
Interrupt_BufferKept ==
    /\ loop = "reading"
    /\ inMultiLine' = FALSE
    /\ sent' = <<>> /\ printed' = (IF inMultiLine THEN "\n" ELSE "") /\ reported' = Nil
    /\ NoCall
    /\ UNCHANGED <<config, conn, expandedOutput, loop, multiLineBuffer>>

\* rl.Readline() returned readline.ErrInterrupt: a command being accumulated
\* is abandoned and a new line printed
Interrupt ==
    /\ loop = "reading"
    /\ multiLineBuffer' = IF inMultiLine THEN <<>> ELSE multiLineBuffer
    /\ inMultiLine' = FALSE
    /\ sent' = <<>> /\ printed' = (IF inMultiLine THEN "\n" ELSE "") /\ reported' = Nil
    /\ NoCall
    /\ UNCHANGED <<config, conn, expandedOutput, loop>>

\* rl.Readline() returned io.EOF: Run returns nil
EndOfInput ==
    /\ loop = "reading"
    /\ loop' = "returned"
    /\ sent' = <<>> /\ printed' = "Bye" /\ reported' = Nil
    /\ NoCall
    /\ UNCHANGED <<config, conn, expandedOutput, multiLineBuffer, inMultiLine>>

\* rl.Readline() returned another error: Run returns it and main reports it
ReadFails ==
    /\ loop = "reading"
    /\ loop' = "failed"
    /\ sent' = <<>> /\ printed' = "" /\ reported' = [msg |-> <<"read failed">>]
    /\ NoCall
    /\ UNCHANGED <<config, conn, expandedOutput, multiLineBuffer, inMultiLine>>

\* the line is empty once trimmed
SkipLine(raw) ==
    /\ loop = "reading"
    /\ TrimSpace(raw) = <<>>
    /\ sent' = <<>> /\ printed' = "" /\ reported' = Nil
    /\ NoCall
    /\ UNCHANGED <<config, conn, expandedOutput, multiLineBuffer, inMultiLine,
                   loop>>

\* the line is quit, exit, \q or \quit in any case: Run returns nil
QuitLine(raw) ==
    LET line == TrimSpace(raw)
    IN  /\ loop = "reading"
        /\ line # <<>>
        /\ ToLower(line) \in QuitWords
        /\ loop' = "returned"
        /\ sent' = <<>> /\ printed' = "Bye" /\ reported' = Nil
        /\ NoCall
        /\ UNCHANGED <<config, conn, expandedOutput, multiLineBuffer,
                       inMultiLine>>

\* the line is help, \? or \help in any case
HelpLine(raw) ==
    LET line == TrimSpace(raw)
    IN  /\ loop = "reading"
        /\ line # <<>>
        /\ ToLower(line) \notin QuitWords
        /\ ToLower(line) \in HelpWords
        /\ sent' = <<>> /\ printed' = "help" /\ reported' = Nil
        /\ NoCall
        /\ UNCHANGED <<config, conn, expandedOutput, multiLineBuffer,
                       inMultiLine, loop>>

\* the line is not complete: it is appended to the buffer with a space
Accumulate(raw) ==
    LET line == TrimSpace(raw)
    IN  /\ loop = "reading"
        /\ line # <<>>
        /\ ToLower(line) \notin QuitWords \cup HelpWords
        /\ Incomplete(line)
        /\ Len(multiLineBuffer) + Len(line) + 1 <= MaxBufferLen
        /\ multiLineBuffer' = multiLineBuffer \o line \o <<" ">>
        /\ inMultiLine' = TRUE
        /\ sent' = <<>> /\ printed' = "" /\ reported' = Nil
        /\ NoCall
        /\ UNCHANGED <<config, conn, expandedOutput, loop>>

\* faulty variant: Run returns the error of executeQuery
Execute_ErrorReturned(raw) ==
    LET line == TrimSpace(raw)
        fullQuery == IF inMultiLine THEN multiLineBuffer \o line ELSE line
    IN  /\ loop = "reading"
        /\ line # <<>>
        /\ ToLower(line) \notin QuitWords \cup HelpWords
        /\ ~Incomplete(line)
        /\ multiLineBuffer' = IF inMultiLine THEN <<>> ELSE multiLineBuffer
        /\ inMultiLine' = FALSE
        /\ input' = fullQuery
        /\ pc' = "returned"
        /\ \E translated \in {Translate(dbType, fullQuery)} :
              /\ result' = translated.result
              /\ err' = translated.err
              /\ \E env \in Envs :
                    \E done \in {executeQuery(client, translated, env)} :
                       /\ config' = done.c.config
                       /\ conn' = done.c.conn
                       /\ expandedOutput' = done.c.expandedOutput
                       /\ loop' = IF done.exited THEN "exited"
                                  ELSE IF done.err # Nil THEN "failed" ELSE "reading"
                       /\ sent' = done.sent
                       /\ printed' = done.printed
                       /\ reported' = done.err
        /\ UNCHANGED dbType

\* the line completes a command: the command is translated and executed, and
\* an error is reported
Execute(raw) ==
    LET line == TrimSpace(raw)
        fullQuery == IF inMultiLine THEN multiLineBuffer \o line ELSE line
    IN  /\ loop = "reading"
        /\ line # <<>>
        /\ ToLower(line) \notin QuitWords \cup HelpWords
        /\ ~Incomplete(line)
        /\ multiLineBuffer' = IF inMultiLine THEN <<>> ELSE multiLineBuffer
        /\ inMultiLine' = FALSE
        /\ input' = fullQuery
        /\ pc' = "returned"
        /\ \E translated \in {Translate(dbType, fullQuery)} :
              /\ result' = translated.result
              /\ err' = translated.err
              /\ \E env \in Envs :
                    \E done \in {executeQuery(client, translated, env)} :
                       /\ config' = done.c.config
                       /\ conn' = done.c.conn
                       /\ expandedOutput' = done.c.expandedOutput
                       /\ loop' = IF done.exited THEN "exited" ELSE "reading"
                       /\ sent' = done.sent
                       /\ printed' = done.printed
                       /\ reported' = done.err
        /\ UNCHANGED dbType

SessionNext ==
    \/ Interrupt
    \/ EndOfInput
    \/ ReadFails
    \/ \E raw \in SessionLines :
          \/ SkipLine(raw)
          \/ QuitLine(raw)
          \/ HelpLine(raw)
          \/ Accumulate(raw)
          \/ Execute(raw)

Session == SessionInit /\ [][SessionNext]_vars

(***************************************************************************)
(* Properties.  Returned says that the state holds what a call returned.    *)
(***************************************************************************)
Returned == pc = "returned"

Foreign == dbType = PostgreSQL

\* q is s without its leading and trailing white space
IsStripOf(q, s) ==
    /\ q = <<>> \/ (~IsSpace(q[1]) /\ ~IsSpace(q[Len(q)]))
    /\ \E i \in 0..Len(s) : \E j \in i..Len(s) :
          /\ q = SubSeq(s, i + 1, j)
          /\ \A k \in (1..i) \cup ((j + 1)..Len(s)) : IsSpace(s[k])

\* s begins with the punctuation marker
BeginsWithMarker(s) == Len(s) > 0 /\ s[1] = "\\"

\* the first character of s that is not white space is the punctuation marker
LeadsWithMarker(s) ==
    \E i \in 1..Len(s) : s[i] = "\\" /\ \A k \in 1..(i - 1) : IsSpace(s[k])

\* the first white-space-delimited token of s
FirstToken(s) ==
    LET start == {i \in 1..Len(s) : ~IsSpace(s[i])}
        from == SetMin(start)
        stop == {j \in from..Len(s) : IsSpace(s[j])}
    IN  IF start = {} THEN <<>>
        ELSE SubSeq(s, from, IF stop = {} THEN Len(s) ELSE SetMin(stop) - 1)

\* the case labels of the directive table
DirectiveTable ==
    { Directive.l, Directive.list, Directive.dt, Directive.dtplus, Directive.d,
      Directive.di, Directive.dv, Directive.df, Directive.du, Directive.dn,
      Directive.c, Directive.connect, Directive.q, Directive.quit, Directive.qmark,
      Directive.help, Directive.x }

\* the normalized input matches a row of the table of translateForPostgres
\* or a help form
MatchesForm(s) ==
    LET t == TrimSuffix(TrimSpace(s), <<";">>)
    IN  \/ ToUpper(TrimSpace(t)) \in {Phrase(ph) : ph \in LiteralPhrases}
        \/ ToUpper(t) \in {Phrase(ph) : ph \in LiteralPhrases}
        \/ \E re \in {showTablesFromRe, showColumnsRe, showFullColumnsRe, showCreateTableRe,
                      showCreateDatabaseRe, showIndexRe, showVarsLikeRe, showGrantsForRe,
                      useDbRe} : FindStringSubmatch(re, t) # <<>>

\* C1 as stated: for the native dialect (MySQL) Translate(q) returns, without
\* error, a non-special outcome whose Query equals q, for every input q,
\* inputs with surrounding white space included.
C1_IdentityAsStated ==
    (dbType = MySQL /\ Returned) => (err = Nil /\ result = QueryResult(input))

\* C1 amended: for the native dialect Translate(q) returns, without error, a
\* non-special outcome whose Query is q without its leading and trailing
\* white space (so Query = q when q has none), whatever q would mean to the
\* foreign dialect.
C1_IdentityUpToTrim ==
    (dbType = MySQL /\ Returned) =>
        /\ err = Nil
        /\ result # Nil
        /\ result = QueryResult(result.Query)
        /\ IsStripOf(result.Query, input)

\* a command that is a special action for the foreign dialect, typed with
\* surrounding white space, has been returned trimmed by the native dialect
C1_Witness ==
    /\ dbType = MySQL /\ Returned
    /\ input = <<" ">> \o Phrase(<<Text.kUSE, SomeName>>) \o <<";", " ">>
    /\ result.Query = Phrase(<<Text.kUSE, SomeName>>) \o <<";">>

\* C2: no outcome returned by Translate has both a non-empty Query and
\* IsSpecial = true, for any input and either dialect.
C2_NeverBothSet ==
    (Returned /\ err = Nil) => ~(result.Query # <<>> /\ result.IsSpecial)

\* C3 as stated: for the foreign dialect Translate returns no error for an
\* input that does not begin with the punctuation marker.
C3_NoErrorAsStated ==
    (Foreign /\ Returned /\ ~BeginsWithMarker(input)) => err = Nil

\* C3 amended: for the foreign dialect Translate returns no error for an
\* input whose first character after leading white space is not the
\* punctuation marker: it returns an outcome.
C3_NoErrorOnOrdinaryText ==
    (Foreign /\ Returned /\ ~LeadsWithMarker(input)) => (err = Nil /\ result # Nil)

\* ordinary text with the marker inside it has passed through without error
C3_Witness ==
    /\ Foreign /\ Returned
    /\ ~LeadsWithMarker(input)
    /\ \E i \in 1..Len(input) : input[i] = "\\"
    /\ err = Nil
    /\ result.Query = TrimSpace(input)

\* C4: for the foreign dialect an input that begins with the marker and whose
\* first white-space-delimited token is not in the directive table fails with
\* the unknown-command error and returns no outcome.
C4_UnknownDirectiveFails ==
    (Foreign /\ Returned /\ BeginsWithMarker(input) /\ FirstToken(input) \notin DirectiveTable)
        => /\ result = Nil
           /\ err = [msg |-> <<"unknown command: ">> \o FirstToken(input)]

\* the directive \z has been refused
C4_Witness ==
    /\ Foreign /\ Returned
    /\ input = <<"\\", "z">>
    /\ result = Nil /\ err # Nil

\* C5: for the foreign dialect \c or \connect with no following token fails
\* with the missing-argument (usage) error; with a following token it never
\* fails and yields use_database with Args = [the token] and no query.
C5_MissingArgumentLaw ==
    (Foreign /\ Returned) =>
        \A f \in ConnectForms :
            input = f.text =>
                IF f.arg = <<>>
                THEN result = Nil /\ err = [msg |-> <<"usage: \\c database_name">>]
                ELSE err = Nil /\ result = SpecialResult("use_database", f.arg)

\* both cases of C5 have been returned
C5_WitnessMissing ==
    Foreign /\ Returned /\ input = Directive.c /\ err # Nil

C5_Witness ==
    /\ Foreign /\ Returned
    /\ input = Directive.c \o <<" ">> \o SomeName
    /\ result.Args = <<SomeName>>

\* C6: for the foreign dialect 'USE <name>' yields IsSpecial = true, kind
\* use_database, Args = [<name>] in its original letter case, and no Query.
C6_UseDatabase ==
    (Foreign /\ Returned) =>
        \A f \in UseForms :
            input = f.text =>
                /\ err = Nil
                /\ result = [Query |-> <<>>, IsSpecial |-> TRUE,
                             SpecialType |-> "use_database", Args |-> <<f.arg>>]

\* 'use User_1;' has yielded the switch to User_1
C6_Witness ==
    /\ Foreign /\ Returned
    /\ input = InCase(Text.kUSE, "lower") \o <<" ">> \o SomeName \o <<";">>
    /\ result.IsSpecial /\ result.Args = <<SomeName>>

\* the query on the database catalog: no template entries, ordered by name
DatabaseCatalogQuery ==
    <<"SELECT datname AS \"Database\" FROM pg_database WHERE datistemplate = false ORDER BY datname">>

\* C7: for the foreign dialect SHOW DATABASES (any letter case, with or
\* without one terminator) yields the non-special query on pg_database that
\* excludes templates and orders by name, and \l and \list yield the same.
C7_ShowDatabases ==
    (Foreign /\ Returned /\ input \in ShowDatabasesForms \cup {Directive.l, Directive.list})
        => (err = Nil /\ result = QueryResult(DatabaseCatalogQuery))

\* 'show databases;' has been rewritten
C7_Witness ==
    /\ Foreign /\ Returned
    /\ input = InCase(Phrase(<<Text.kSHOW, Text.kDATABASES>>), "lower") \o <<";">>
    /\ result.Query = DatabaseCatalogQuery

C7_WitnessDirective ==
    Foreign /\ Returned /\ input = Directive.list /\ result.Query = DatabaseCatalogQuery

\* the query on the column catalog restricted to table t, by ordinal position
ColumnCatalogQuery(t) ==
    <<"SELECT \n\t\t\t\tcolumn_name AS \"Field\",\n\t\t\t\tdata_type AS \"Type\",\n\t\t\t\tCASE WHEN is_nullable = 'YES' THEN 'YES' ELSE 'NO' END AS \"Null\",\n\t\t\t\tCASE \n\t\t\t\t\tWHEN column_default LIKE 'nextval", "%", "' THEN 'PRI'\n\t\t\t\t\tELSE ''\n\t\t\t\tEND AS \"Key\",\n\t\t\t\tcolumn_default AS \"Default\",\n\t\t\t\tCASE \n\t\t\t\t\tWHEN column_default LIKE 'nextval", "%", "' THEN 'auto_increment'\n\t\t\t\t\tELSE ''\n\t\t\t\tEND AS \"Extra\"\n\t\t\tFROM information_schema.columns \n\t\t\tWHERE table_schema = 'public' AND table_name = '">>
    \o t \o
    <<"'\n\t\t\tORDER BY ordinal_position">>

\* C8: for the foreign dialect SHOW COLUMNS FROM t, DESC t and DESCRIBE t
\* yield the same non-special outcome: the query on information_schema.columns
\* restricted to table_name = t (original casing), ordered by ordinal position.
C8_DescribeSynonyms ==
    (Foreign /\ Returned) =>
        \A f \in DescribeForms :
            input = f.text => (err = Nil /\ result = QueryResult(ColumnCatalogQuery(f.arg)))

\* 'DESCRIBE User_1' has been rewritten
C8_Witness ==
    /\ Foreign /\ Returned
    /\ input = Phrase(<<Text.kDESCRIBE, SomeName>>)
    /\ result.Query = ColumnCatalogQuery(SomeName)

\* a LIKE pattern in the target syntax: % is .*, _ is ., the rest is kept
RECURSIVE LikeToRegex(_)
LikeToRegex(p) ==
    IF p = <<>> THEN <<>>
    ELSE (CASE Head(p) = "%" -> <<".", "*">>
            [] Head(p) = "_" -> <<".">>
            [] OTHER -> <<Head(p)>>) \o LikeToRegex(Tail(p))

\* the query on the settings catalog filtered by a pattern
SettingsCatalogQuery(pattern) ==
    <<"SELECT name AS \"Variable_name\", setting AS \"Value\" \n\t\t\t\t\tFROM pg_settings \n\t\t\t\t\tWHERE name ~ '">>
    \o pattern \o
    <<"'\n\t\t\t\t\tORDER BY name">>

\* C9: for the foreign dialect SHOW [GLOBAL] VARIABLES LIKE '<pattern>' yields
\* a non-special query on pg_settings whose filter is <pattern> with every %
\* replaced by .* and every _ by ., all other characters kept in order.
C9_VariablesLike ==
    (Foreign /\ Returned) =>
        \A f \in LikeForms :
            input = f.text =>
                (err = Nil /\ result = QueryResult(SettingsCatalogQuery(LikeToRegex(f.arg))))

\* a pattern with both wildcards, twice each, has been translated
C9_Witness ==
    /\ Foreign /\ Returned
    /\ input = Phrase(<<Text.kSHOW, Text.kVARIABLES, Text.kLIKE>>) \o <<" ">>
                 \o Quoted(<<"%", "%", "_", "_", "%">>)
    /\ result.Query = SettingsCatalogQuery(<<".", "*", ".", "*", ".", ".", ".", "*">>)

\* C10 as stated: for the foreign dialect an input that matches no recognized
\* form and does not begin with the marker yields a non-special outcome whose
\* Query is the input unchanged.
C10_PassthroughAsStated ==
    (Foreign /\ Returned /\ ~BeginsWithMarker(input) /\ ~MatchesForm(input))
        => (err = Nil /\ result = QueryResult(input))

\* C10 amended: for the foreign dialect an input that, once its surrounding
\* white space is removed, matches no recognized form and does not begin with
\* the marker yields a non-special outcome whose Query is the input without
\* that white space, its trailing terminator kept.
C10_PassthroughUpToTrim ==
    (Foreign /\ Returned /\ ~LeadsWithMarker(input) /\ ~MatchesForm(input))
        => /\ err = Nil
           /\ result # Nil
           /\ result = QueryResult(result.Query)
           /\ IsStripOf(result.Query, input)

\* 'SELECT * FROM User_1;' has passed through with its terminator
C10_Witness ==
    /\ Foreign /\ Returned
    /\ input = Join(<<Text.kSELECT, <<"*">>, Text.kFROM, SomeName>>, <<" ">>) \o <<";">>
    /\ result.Query = input

OverlayKinds ==
    [show_help |-> {<<Text.kSHOW, Text.kHELP_FLAG>>},
     show_create_help |-> {<<Text.kSHOW, Text.kCREATE, Text.kHELP_FLAG>>},
     show_tables_help |-> {<<Text.kSHOW, Text.kTABLES, Text.kHELP_FLAG>>},
     show_columns_help |-> {<<Text.kSHOW, Text.kCOLUMNS, Text.kHELP_FLAG>>,
                            <<Text.kDESC, Text.kHELP_FLAG>>,
                            <<Text.kDESCRIBE, Text.kHELP_FLAG>>}]

Triggers(s, kind) ==
    ToUpper(TrimSpace(TrimSuffix(TrimSpace(s), <<";">>)))
        \in {Phrase(ph) : ph \in OverlayKinds[kind]}

Dispatched(kind) ==
    /\ pc' = "returned" /\ err' = Nil
    /\ result'.IsSpecial /\ result'.SpecialType = kind

\* the state holds a dispatch of kind
After(kind) ==
    /\ pc = "returned" /\ err = Nil
    /\ result.IsSpecial /\ result.SpecialType = kind

ConnectionError == [msg |-> <<"failed to connect to database">>]

\* C13: dispatching switch-active-database(name) sends no query; when the
\* mutator succeeds the session's active-database name becomes name and the
\* connection an open one to name; when it fails the dispatcher returns the
\* mutator's error and the session's active-database name is unchanged.
C13_SwitchOnlyOnSuccess ==
    [][ Dispatched("use_database") =>
          /\ sent' = <<>>
          /\ IF reported' = Nil
             THEN /\ config'.Database = result'.Args[1]
                  /\ conn'.DB = [database |-> result'.Args[1], closed |-> FALSE]
             ELSE /\ reported' = ConnectionError
                  /\ config'.Database = config.Database ]_vars

\* a switch to another database has failed and the session has kept the name
\* of the database it began with
C13_Witness ==
    /\ After("use_database")
    /\ result.Args = <<OtherDatabase>>
    /\ reported = ConnectionError
    /\ config.Database = StartDatabase
    /\ sent = <<>>

\* a switch to another database has succeeded
C13_WitnessSwitched ==
    /\ After("use_database")
    /\ reported = Nil
    /\ config.Database = OtherDatabase

\* C14: after a failed switch the session still holds a usable connection:
\* the query of the next command is sent on a handle that is not closed.
C14_UsableAfterFailedSwitch ==
    [][ (After("use_database") /\ reported # Nil /\ sent' # <<>>) =>
            ~sent'[1].DB.closed ]_vars

\* C15: dispatching toggle-display flips the display-mode flag (so a second
\* toggle restores it), sends no query, reports no error, and leaves the
\* active-database name and the connection unchanged.
C15_ToggleFlips ==
    [][ Dispatched("toggle_expanded") =>
          /\ expandedOutput' = ~expandedOutput
          /\ sent' = <<>>
          /\ reported' = Nil
          /\ UNCHANGED <<config, conn>> ]_vars

\* the flag, off when the session began, is off again after a toggle: it has
\* been toggled twice
C15_Witness ==
    /\ After("toggle_expanded")
    /\ expandedOutput = FALSE

C17_ErrorsNotFatal ==
    [][ (pc' = "returned" /\ reported' # Nil) =>
          /\ loop' = "reading"
          /\ expandedOutput' = expandedOutput
          /\ multiLineBuffer' = <<>>
          /\ inMultiLine' = FALSE ]_vars

\* an unknown directive was reported while the expanded display was on, and
\* the loop reads on
C17_Witness ==
    /\ pc = "returned"
    /\ err # Nil
    /\ reported = err
    /\ input = <<"\\", "z">>
    /\ expandedOutput
    /\ loop = "reading"

\* a server error was reported, and the loop reads on
C17_WitnessRelayed ==
    /\ pc = "returned"
    /\ err = Nil
    /\ reported = [msg |-> <<"query failed">>]
    /\ loop = "reading"

\* s ends with the statement terminator
EndsWithTerminator(s) == Len(s) > 0 /\ s[Len(s)] = ";"

\* C18: every command the session loop passes to Translate ends with the
\* statement terminator or begins with the punctuation marker.
C18_OnlyCompleteCommands ==
    pc = "returned" => (EndsWithTerminator(input) \/ BeginsWithMarker(input))

\* the errors the dispatcher raises itself
DispatcherErrors ==
    {"database name required", "table name required", "unknown special command: "}

\* C19: every special action Translate produces is accepted by the
\* dispatcher: whatever the collaborators do, handleSpecialCommand returns
\* neither its unknown-action error nor one of its missing-argument errors.
C19_ActionsAccepted ==
    (Returned /\ err = Nil /\ result.IsSpecial) =>
        \A env \in Envs :
            LET e == handleSpecialCommand(client, result, env).err
            IN  e = Nil \/ e.msg[1] \notin DispatcherErrors

\* a request for the definition of a database was translated for the foreign
\* dialect, and the dispatcher sends a catalog query for it
C19_Witness ==
    /\ Foreign /\ Returned /\ err = Nil
    /\ result = SpecialResult("show_create_database", <<SomeName>>)
    /\ \E env \in Envs :
          LET done == handleSpecialCommand(client, result, env)
          IN  done.err = Nil /\ Len(done.sent) = 1

\* C20: for the foreign dialect a directive of the table followed by one
\* terminator yields what the directive yields without it.
C20_DirectiveTerminatorStripped ==
    (Foreign /\ Returned /\ BeginsWithMarker(input) /\ EndsWithTerminator(input)
       /\ FirstToken(SubSeq(input, 1, Len(input) - 1)) \in DirectiveTable) =>
        LET bare == Translate(PostgreSQL, SubSeq(input, 1, Len(input) - 1))
        IN  result = bare.result /\ err = bare.err

\* s is a token made of word characters only
IsWord(s) == s # <<>> /\ \A i \in 1..Len(s) : IsWordChar(s[i])

\* C21: every argument Translate passes with a special action is a token made
\* only of word characters (no row passes the content of a quoted literal as
\* an argument), the directive \c <name> included.
C21_ArgumentsAreWords ==
    (Foreign /\ Returned /\ err = Nil /\ result.IsSpecial) =>
        \A i \in 1..Len(result.Args) : IsWord(result.Args[i])

\* the describe-columns-full query: with Collation, Privileges and Comment
FullColumnCatalogQuery(t) ==
    <<"SELECT \n\t\t\t\tcolumn_name AS \"Field\",\n\t\t\t\tdata_type AS \"Type\",\n\t\t\t\tcharacter_set_name AS \"Collation\",\n\t\t\t\tCASE WHEN is_nullable = 'YES' THEN 'YES' ELSE 'NO' END AS \"Null\",\n\t\t\t\t'' AS \"Key\",\n\t\t\t\tcolumn_default AS \"Default\",\n\t\t\t\t'' AS \"Extra\",\n\t\t\t\t'select,insert,update,references' AS \"Privileges\",\n\t\t\t\t'' AS \"Comment\"\n\t\t\tFROM information_schema.columns \n\t\t\tWHERE table_schema = 'public' AND table_name = '">>
    \o t \o
    <<"'\n\t\t\tORDER BY ordinal_position">>

\* the tables-with-type query
TablesWithTypeQuery ==
    <<"SELECT tablename AS \"Tables_in_database\", \n\t\t\t\t\t'BASE TABLE' AS \"Table_type\"\n\t\t\t\t\tFROM pg_tables \n\t\t\t\t\tWHERE schemaname = 'public' \n\t\t\t\t\tORDER BY tablename">>

\* the plain enumerate-tables query
TablesQuery ==
    <<"SELECT tablename AS \"Tables_in_database\" \n\t\t\t\t\tFROM pg_tables \n\t\t\t\t\tWHERE schemaname = 'public' \n\t\t\t\t\tORDER BY tablename">>

\* C22: for the foreign dialect SHOW FULL COLUMNS FROM t yields the
\* describe-columns-full query on t and not the generic describe-columns
\* query, and SHOW FULL TABLES yields the tables-with-type query and not the
\* plain enumerate-tables query.
C22_SpecificBeforeGeneric ==
    (Foreign /\ Returned) =>
        /\ \A f \in FullColumnsForms :
              input = f.text =>
                  /\ err = Nil
                  /\ result = QueryResult(FullColumnCatalogQuery(f.arg))
                  /\ result.Query # ColumnCatalogQuery(f.arg)
        /\ input \in FullTablesForms =>
              /\ err = Nil
              /\ result = QueryResult(TablesWithTypeQuery)
              /\ result.Query # TablesQuery

\* 'show full columns from User_1;' has been rewritten to the full query
C22_Witness ==
    /\ Foreign /\ Returned
    /\ input = ToLower(Phrase(<<Text.kSHOW, Text.kFULL, Text.kCOLUMNS, Text.kFROM>>))
                 \o <<" ">> \o SomeName \o <<";">>
    /\ result.Query = FullColumnCatalogQuery(SomeName)

\* 'SHOW FULL TABLES' has been rewritten to the tables-with-type query
C22_WitnessTables ==
    /\ Foreign /\ Returned
    /\ input = Phrase(<<Text.kSHOW, Text.kFULL, Text.kTABLES>>)
    /\ result.Query = TablesWithTypeQuery

\* what follows the first white-space-delimited token of s
AfterFirstToken(s) ==
    LET start == {i \in 1..Len(s) : ~IsSpace(s[i])}
        from == SetMin(start)
        stop == {j \in from..Len(s) : IsSpace(s[j])}
    IN  IF start = {} \/ stop = {} THEN <<>>
        ELSE SubSeq(s, SetMin(stop), Len(s))

\* the second white-space-delimited token of s, empty when there is none
SecondToken(s) == FirstToken(AfterFirstToken(s))

\* the directives that yield a fixed query, each with its query
FixedDirectives ==
    { <<Directive.dt, <<"SELECT tablename AS \"Tables\" FROM pg_tables WHERE schemaname = 'public' ORDER BY tablename">>>>,
      <<Directive.dtplus, <<"SELECT \n\t\t\t\ttablename AS \"Name\",\n\t\t\t\tpg_size_pretty(pg_total_relation_size(schemaname || '.' || tablename)) AS \"Size\"\n\t\t\tFROM pg_tables \n\t\t\tWHERE schemaname = 'public' \n\t\t\tORDER BY tablename">>>>,
      <<Directive.di, <<"SELECT indexname AS \"Index\", tablename AS \"Table\" FROM pg_indexes WHERE schemaname = 'public'">>>>,
      <<Directive.dv, <<"SELECT viewname AS \"View\" FROM pg_views WHERE schemaname = 'public'">>>>,
      <<Directive.df, <<"SELECT routine_name AS \"Function\", data_type AS \"Return Type\" \n\t\t\t\t\tFROM information_schema.routines \n\t\t\t\t\tWHERE routine_schema = 'public' AND routine_type = 'FUNCTION'">>>>,
      <<Directive.du, <<"SELECT rolname AS \"Role\", \n\t\t\t\t\tCASE WHEN rolsuper THEN 'Superuser' ELSE '' END AS \"Attributes\"\n\t\t\t\t\tFROM pg_roles ORDER BY rolname">>>>,
      <<Directive.dn, <<"SELECT schema_name AS \"Schema\" FROM information_schema.schemata ORDER BY schema_name">>>> }

\* the describe query of \d <table>
RelationQuery(t) ==
    <<"SELECT \n\t\t\t\t\tcolumn_name AS \"Column\",\n\t\t\t\t\tdata_type AS \"Type\",\n\t\t\t\t\tCASE WHEN is_nullable = 'YES' THEN 'YES' ELSE 'NO' END AS \"Nullable\"\n\t\t\t\tFROM information_schema.columns \n\t\t\t\tWHERE table_schema = 'public' AND table_name = '">>
    \o t \o
    <<"'\n\t\t\t\tORDER BY ordinal_position">>

\* the query of \d alone: all tables and views
AllRelationsQuery ==
    <<"SELECT tablename AS \"Name\", 'table' AS \"Type\" FROM pg_tables WHERE schemaname = 'public'\n\t\t\t\t\tUNION ALL\n\t\t\t\t\tSELECT viewname AS \"Name\", 'view' AS \"Type\" FROM pg_views WHERE schemaname = 'public'\n\t\t\t\t\tORDER BY \"Name\"">>

\* the directives that yield a special action without arguments
ActionDirectives ==
    { <<Directive.q, "quit">>, <<Directive.quit, "quit">>, <<Directive.qmark, "help">>,
      <<Directive.help, "help">>, <<Directive.x, "toggle_expanded">> }

\* C23: for the foreign dialect an input that begins with the marker is
\* decided by its first white-space-delimited token alone: \dt, \dt+, \di,
\* \dv, \df, \du and \dn yield their fixed non-special query whatever
\* follows; \d yields the describe query of the second token when there is
\* one and the query of all relations otherwise; \q, \quit, \?, \help and
\* \x yield the quit, help and toggle-display actions, without query and
\* without arguments.
C23_FirstTokenDecides ==
    (Foreign /\ Returned /\ LeadsWithMarker(input)) =>
        /\ \A d \in FixedDirectives :
              FirstToken(input) = d[1] => (err = Nil /\ result = QueryResult(d[2]))
        /\ FirstToken(input) = Directive.d =>
              /\ err = Nil
              /\ result = QueryResult(IF SecondToken(input) = <<>> THEN AllRelationsQuery
                                      ELSE RelationQuery(SecondToken(input)))
        /\ \A d \in ActionDirectives :
              FirstToken(input) = d[1] => (err = Nil /\ result = SpecialResult(d[2], <<>>))

\* \dt followed by two more tokens has yielded the query of \dt
C23_Witness ==
    /\ Foreign /\ Returned
    /\ input = Directive.dt \o <<" ", "\t">> \o SomeName \o <<" ", "t">>
    /\ \E d \in FixedDirectives : d[1] = Directive.dt /\ result = QueryResult(d[2])

\* \d with a table name has yielded the describe query of that table
C23_WitnessDescribe ==
    /\ Foreign /\ Returned
    /\ input = Directive.d \o <<" ">> \o SomeName
    /\ result = QueryResult(RelationQuery(SomeName))

\* \x followed by a token has yielded the toggle-display action
C23_WitnessAction ==
    /\ Foreign /\ Returned
    /\ input = Directive.x \o <<" ">> \o SomeName
    /\ result = SpecialResult("toggle_expanded", <<>>)

\* the setting names the filters are compared on
SettingNames == Strings({"m", "x"}, MaxPatLen)

\* name LIKE p: the whole name, % any run of characters, _ one character
RECURSIVE LikeSelects(_, _)
LikeSelects(p, name) ==
    IF p = <<>> THEN name = <<>>
    ELSE IF Head(p) = "%"
         THEN \E k \in 0..Len(name) : LikeSelects(Tail(p), SubSeq(name, k + 1, Len(name)))
         ELSE /\ name # <<>>
              /\ Head(p) = "_" \/ Head(p) = Head(name)
              /\ LikeSelects(Tail(p), Tail(name))

\* the regular expression re, of characters, . and .*, matches a prefix of s
RECURSIVE MatchesPrefix(_, _)
MatchesPrefix(re, s) ==
    IF re = <<>> THEN TRUE
    ELSE IF Len(re) >= 2 /\ re[1] = "." /\ re[2] = "*"
         THEN \E k \in 0..Len(s) :
                 MatchesPrefix(SubSeq(re, 3, Len(re)), SubSeq(s, k + 1, Len(s)))
         ELSE /\ s # <<>>
              /\ Head(re) = "." \/ Head(re) = Head(s)
              /\ MatchesPrefix(Tail(re), Tail(s))

\* name ~ 're' of the target dialect: re matches somewhere in name
RegexSelects(re, name) ==
    \E k \in 0..Len(name) : MatchesPrefix(re, SubSeq(name, k + 1, Len(name)))

\* the filter between the quotes of the settings query
FilterOf(query) == SubSeq(query, 2, Len(query) - 1)

\* patterns built from letters, % and _
PlainPatterns == Strings({"m", "%", "_"}, MaxPatLen)

\* C24: the filter produced for SHOW VARIABLES LIKE '<pattern>' selects the
\* setting names the LIKE pattern selects, for every pattern of letters, %
\* and _ and every name.
C24_FilterSelectsAsLike ==
    (Foreign /\ Returned) =>
        \A f \in LikeForms :
            (input = f.text /\ f.arg \in PlainPatterns) =>
                \A name \in SettingNames :
                    RegexSelects(FilterOf(result.Query), name) <=> LikeSelects(f.arg, name)

\* the command was completed by a line that holds the terminator alone
TerminatorOnOwnLine(s) == Len(s) >= 3 /\ SubSeq(s, Len(s) - 1, Len(s)) = <<" ", ";">>

\* the same command typed on one line, the terminator after its last word
OnOneLine(s) == SubSeq(s, 1, Len(s) - 2) \o <<";">>

\* C25: for the foreign dialect a command of a recognized form whose
\* terminator was typed alone on the last line is translated to the outcome
\* of the same command typed on one line.
C25_LineBreaksDoNotMatter ==
    (Foreign /\ pc = "returned" /\ TerminatorOnOwnLine(input) /\ MatchesForm(OnOneLine(input)))
        => LET oneLine == Translate(dbType, OnOneLine(input))
           IN  result = oneLine.result /\ err = oneLine.err

Native == dbType = MySQL

C27_WitnessToggle ==
    /\ Native /\ pc = "returned"
    /\ input = Directive.x
    /\ Len(sent) = 1 /\ sent[1].query = Directive.x
    /\ expandedOutput = FALSE

\* C28: the database name recorded by the connection equals the session's
\* active-database name, also after a failed switch.
C28_NamesAgree == GetCurrentDatabase(conn) = config.Database

ClosedError == [msg |-> <<"sql: database is closed">>]

\* C29: a failed switch closes the connection and the session goes on: as
\* long as the connection is closed every query is refused with an error the
\* loop reports, and the loop reads the next line; a switch whose reconnect
\* succeeds gives the session an open connection to the database it names;
\* and on an open connection queries are sent to the session's active database.
C29_RecoversAfterFailedSwitch ==
    [][ /\ (Dispatched("use_database") /\ reported' # Nil) =>
              (conn'.DB.closed /\ loop' = "reading")
        /\ (conn.DB.closed /\ pc' = "returned" /\ sent' # <<>>) =>
              /\ reported' = ClosedError
              /\ loop' = "reading"
              /\ conn' = conn
        /\ (Dispatched("use_database") /\ reported' = Nil) =>
              /\ conn'.DB = [database |-> result'.Args[1], closed |-> FALSE]
              /\ config'.Database = result'.Args[1]
        /\ (~conn.DB.closed /\ pc' = "returned" /\ sent' # <<>>) =>
              /\ sent'[1].DB = [database |-> config.Database, closed |-> FALSE]
              /\ reported' # ClosedError ]_vars

\* a query was refused on the connection a failed switch closed, the error
\* was reported and the loop reads on
C29_Witness ==
    /\ pc = "returned" /\ err = Nil /\ ~result.IsSpecial
    /\ conn.DB.closed
    /\ sent = <<[query |-> result.Query, DB |-> conn.DB]>>
    /\ reported = ClosedError
    /\ loop = "reading"

\* a switch whose reconnect succeeded has put the session on the other database
C29_WitnessRecovered ==
    /\ After("use_database")
    /\ reported = Nil
    /\ conn.DB = [database |-> OtherDatabase, closed |-> FALSE]
    /\ config.Database = OtherDatabase

\* C30: after every iteration inMultiLine is true exactly when the
\* multi-line buffer is not empty; after a command was executed, and after an
\* interrupt during accumulation, the buffer is empty and inMultiLine false.
C30_BufferAndFlagAgree ==
    [][ /\ inMultiLine' <=> multiLineBuffer' # <<>>
        /\ (pc' = "returned" \/ printed' = "\n") =>
              (multiLineBuffer' = <<>> /\ ~inMultiLine') ]_vars

\* an interrupt has abandoned a command that was being accumulated
C30_Witness ==
    /\ printed = "\n"
    /\ multiLineBuffer = <<>>
    /\ ~inMultiLine
    /\ loop = "reading"

\* two lines are accumulated
C30_WitnessAccumulating ==
    /\ inMultiLine
    /\ multiLineBuffer = Text.kSHOW \o <<" ">> \o Text.kSHOW \o <<" ">>

\* the help phrases
HelpPhrases == UNION {OverlayKinds[kind] : kind \in DOMAIN OverlayKinds}

\* the shapes of the rows an input has: the overlay of a help form, a
\* literal phrase, a templated phrase, a punctuation directive
ShapesOf(s) ==
    LET trimmed == TrimSuffix(TrimSpace(s), <<";">>)
    IN  {<<"help", kind>> : kind \in {k \in DOMAIN OverlayKinds : Triggers(s, k)}}
        \cup {<<"phrase", ph>> :
                 ph \in {p \in LiteralPhrases \ HelpPhrases : ToUpper(trimmed) = Phrase(p)}}
        \cup {<<"template", re>> :
                 re \in {r \in {showTablesFromRe, showColumnsRe, showFullColumnsRe,
                                showCreateTableRe, showCreateDatabaseRe, showIndexRe,
                                showVarsLikeRe, showGrantsForRe, useDbRe} :
                            FindStringSubmatch(r, trimmed) # <<>>}}
        \cup (IF LeadsWithMarker(s) THEN {<<"directive">>} ELSE {})

\* C26: no input has the shape of two different rows of the foreign-dialect
\* table, and an input that has the shape of none passes through.
C26_RowsExclusive ==
    (Foreign /\ Returned) =>
        /\ Cardinality(ShapesOf(input)) <= 1
        /\ ShapesOf(input) = {} => (err = Nil /\ result = QueryResult(TrimSpace(input)))

\* the full form of describe-columns has the shape of its own row only
C26_Witness ==
    /\ Foreign /\ Returned
    /\ input = Phrase(<<Text.kSHOW, Text.kFULL, Text.kCOLUMNS, Text.kFROM, SomeName>>)
    /\ ShapesOf(input) = {<<"template", showFullColumnsRe>>}
    /\ result.Query = FullColumnCatalogQuery(SomeName)

=============================================================================
